---- MODULE Spec2Model ----
(***************************************************************************)
(* A model of DriveAnalyzer (src/drive_analyzer_local.py): the snapshot    *)
(* loader, the path resolver, the folder-tree traversals and the analysis  *)
(* passes, as a state machine over the fields of one DriveAnalyzer         *)
(* instance.                                                               *)
(*                                                                         *)
(* Conventions.                                                            *)
(*  - A Python dict object of the snapshot is a record Entry; a reference  *)
(*    to it is [g |-> generation, i |-> index]: every json.load makes a    *)
(*    new generation of objects, and the indices built by earlier loads    *)
(*    keep pointing to the older ones.                                     *)
(*  - A path string "/s1/s2/.../sn" is the sequence <<s1, ..., sn>> of its *)
(*    segments, so path.count('/') is Len (names hold no "/").             *)
(*  - An exception is the name of its class in `raised` ("" for none).     *)
(***************************************************************************)
EXTENDS Integers, Sequences, FiniteSets, TLC

\* ------------------------------------------------------------------ bounds
\* Longest parents list of a generated entry.
MaxParents == 2
\* The interpreter's recursion limit (sys.getrecursionlimit()), scaled down;
\* it stays above the depth of every acyclic tree of the generated snapshots.
RecursionLimit == 12
\* Public method calls in one behaviour of the life-cycle specification.
MaxCalls == 3

\* ------------------------------------------------------- program constants
FOLDER == "application/vnd.google-apps.folder"
UNKNOWN == "onbekend"
CYCLIC == "...cyclische referentie..."
NO_PARENT == "(geen parent)"
NoId == "<no id>"
NoMime == "<no mimeType>"

\* ------------------------------------------------------------ size values
\* The JSON value under 'size': absent, a string of digits, a string that is
\* no integer ("abc"), null, or (after coercion) a Python int.
SizeAbsent == [t |-> "absent", v |-> 0]
SizeStr(n) == [t |-> "numstr", v |-> n]
SizeBad == [t |-> "badstr", v |-> 0]
SizeNull == [t |-> "null", v |-> 0]
SizeInt(n) == [t |-> "int", v |-> n]

\* int(x) of Python: the value, or the exception it raises.
PyInt(x) ==
  CASE x.t = "int" -> [exc |-> "", v |-> x.v]
    [] x.t = "numstr" -> [exc |-> "", v |-> x.v]
    [] x.t = "badstr" -> [exc |-> "ValueError", v |-> 0]
    [] OTHER -> [exc |-> "TypeError", v |-> 0]

HasSize(e) == e.size.t # "absent"

\* ---------------------------------------------------------------- entries
\* createdTime is <<>> when absent, else <<age>>: the age of the entry at the
\* (fixed) clock reading, in half days.
Entry(id, name, mime, parents, size, created) ==
  [id |-> id, name |-> name, mimeType |-> mime, parents |-> parents,
   size |-> size, createdTime |-> created]

IsFolder(e) == e.mimeType = FOLDER

\* ------------------------------------------------------- sequence helpers
Range(s) == {s[i] : i \in 1..Len(s)}

\* The element of a singleton set. {F(x) : x \in {e}} evaluates e once, before
\* F uses it.
Value(S) == CHOOSE v \in S : TRUE

\* seq.count(x).
Count(seq, x) == Cardinality({k \in 1..Len(seq) : seq[k] = x})

\* The indices of s, in order.
Indices(s) == [i \in 1..Len(s) |-> i]

RECURSIVE InsertDesc(_, _, _)
\* Index x put into the sequence p of indices, which is descending by keys,
\* after every index whose key is >= keys[x].
InsertDesc(p, x, keys) ==
  IF p = <<>> THEN <<x>>
  ELSE IF keys[p[1]] >= keys[x] THEN <<p[1]>> \o InsertDesc(Tail(p), x, keys)
  ELSE <<x>> \o p

RECURSIVE PermDesc(_, _)
\* The order sorted(..., reverse=True) gives the first n elements, as indices:
\* descending by keys, equal keys in their original order.
PermDesc(keys, n) ==
  IF n = 0 THEN <<>> ELSE InsertDesc(PermDesc(keys, n - 1), n, keys)

\* sorted(s, key=..., reverse=True), keys[i] being the key of s[i].
SortedDesc(s, keys) ==
  LET p == PermDesc(keys, Len(s)) IN [k \in 1..Len(s) |-> s[p[k]]]

RECURSIVE InsertAsc(_, _, _)
InsertAsc(p, x, keys) ==
  IF p = <<>> THEN <<x>>
  ELSE IF keys[p[1]] <= keys[x] THEN <<p[1]>> \o InsertAsc(Tail(p), x, keys)
  ELSE <<x>> \o p

RECURSIVE PermAsc(_, _)
PermAsc(keys, n) ==
  IF n = 0 THEN <<>> ELSE InsertAsc(PermAsc(keys, n - 1), n, keys)

\* sorted(s, key=...), keys[i] being the key of s[i]: stable, ascending.
SortedAsc(s, keys) ==
  LET p == PermAsc(keys, Len(s)) IN [k \in 1..Len(s) |-> s[p[k]]]

\* ------------------------------------------------------------------ state
VARIABLES
  input,                \* the content of input_file: [ok, entries]
  hashOrder,            \* the order in which this process iterates a set of ids
  objs,                 \* the dict objects made so far, one sequence per json.load
  files,                \* self.files: the generation it lists (0: the initial [])
  folders,              \* self.folders
  folder_map,           \* self.folder_map: id -> folder
  children_map,         \* self.children_map: defaultdict(list), parent id -> children
  root_folders,         \* self.root_folders
  orphan_folders,       \* self.orphan_folders
  file_types,           \* self.file_types: defaultdict(int)
  largest_files,        \* self.largest_files
  potential_duplicates, \* self.potential_duplicates
  exact_duplicates,     \* self.exact_duplicates
  old_files,            \* self.old_files
  unused_files,         \* self.unused_files
  categories,           \* self.categories
  loaded,               \* self.loaded
  outputs,              \* the output files written so far: name -> content
  last,                 \* the last public call: [op, arg, result, raised]
  loads,                \* load_data runs so far: [tried, failed]
  calls,                \* public calls made so far
  scan                  \* a run of drive_scanner_remote.list_all_files

vars == <<input, hashOrder, objs, files, folders, folder_map, children_map,
          root_folders, orphan_folders, file_types, largest_files,
          potential_duplicates, exact_duplicates, old_files, unused_files,
          categories, loaded, outputs, last, loads, calls, scan>>

\* The instance as one value, so that a method is an operator from the state
\* before it to the state after it and methods compose as they call each other.
Self ==
  [objs |-> objs, files |-> files, folders |-> folders,
   folder_map |-> folder_map, children_map |-> children_map,
   root_folders |-> root_folders, orphan_folders |-> orphan_folders,
   file_types |-> file_types, largest_files |-> largest_files,
   potential_duplicates |-> potential_duplicates,
   exact_duplicates |-> exact_duplicates, old_files |-> old_files,
   unused_files |-> unused_files, categories |-> categories,
   loaded |-> loaded, outputs |-> outputs, loads |-> loads, raised |-> "", result |-> <<>>]

Become(s) ==
  /\ objs' = s.objs
  /\ files' = s.files
  /\ folders' = s.folders
  /\ folder_map' = s.folder_map
  /\ children_map' = s.children_map
  /\ root_folders' = s.root_folders
  /\ orphan_folders' = s.orphan_folders
  /\ file_types' = s.file_types
  /\ largest_files' = s.largest_files
  /\ potential_duplicates' = s.potential_duplicates
  /\ exact_duplicates' = s.exact_duplicates
  /\ old_files' = s.old_files
  /\ unused_files' = s.unused_files
  /\ categories' = s.categories
  /\ loaded' = s.loaded
  /\ outputs' = s.outputs
  /\ loads' = s.loads

EmptyDict == [k \in {} |-> <<>>]

Ref(g, i) == [g |-> g, i |-> i]
Deref(s, r) == s.objs[r.g][r.i]
\* self.files as a list of references.
FilesOf(s) ==
  IF s.files = 0 THEN <<>> ELSE [i \in 1..Len(s.objs[s.files]) |-> Ref(s.files, i)]

\* No run of the scanner is under way.
NoScan == [pc |-> "none"]

\* __init__ (the input file and the process's hash order are given); the
\* analyzer runs apart from the scanner.
InitSelf ==
  /\ scan = NoScan
  /\ objs = <<>>
  /\ files = 0
  /\ folders = <<>>
  /\ folder_map = EmptyDict
  /\ children_map = EmptyDict
  /\ root_folders = <<>>
  /\ orphan_folders = <<>>
  /\ file_types = EmptyDict
  /\ largest_files = <<>>
  /\ potential_duplicates = <<>>
  /\ exact_duplicates = <<>>
  /\ old_files = <<>>
  /\ unused_files = <<>>
  /\ categories = EmptyDict
  /\ loaded = FALSE
  /\ outputs = EmptyDict
  /\ last = [op |-> "__init__", arg |-> "", result |-> <<>>, raised |-> ""]
  /\ loads = [tried |-> 0, failed |-> 0]
  /\ calls = 0

\* -------------------------------------------------------------- load_data
\* d[k].append(v) on a defaultdict(list).
DictAppend(d, k, v) ==
  IF k \in DOMAIN d THEN [d EXCEPT ![k] = Append(@, v)]
  ELSE [x \in DOMAIN d \cup {k} |-> IF x = k THEN <<v>> ELSE d[x]]

\* d[k] += 1 on a defaultdict(int).
DictIncr(d, k) ==
  [x \in DOMAIN d \cup {k} |-> IF x \in DOMAIN d THEN
                                  (IF x = k THEN d[x] + 1 ELSE d[x])
                                ELSE 1]

\* d[k] read on a defaultdict(list): a missing key is inserted with [].
DictTouch(d, k) ==
  [x \in DOMAIN d \cup {k} |-> IF x \in DOMAIN d THEN d[x] ELSE <<>>]

RECURSIVE ParentPairs(_, _, _)
\* The (parent_id, item) pairs of the nested loop over items i..upto, in order.
ParentPairs(ents, i, upto) ==
  IF i > upto THEN <<>>
  ELSE [k \in 1..Len(ents[i].parents) |-> <<ents[i].parents[k], i>>]
       \o ParentPairs(ents, i + 1, upto)

RECURSIVE AddChildren(_, _, _)
AddChildren(cm, pairs, g) ==
  IF pairs = <<>> THEN cm
  ELSE AddChildren(DictAppend(cm, pairs[1][1], Ref(g, pairs[1][2])), Tail(pairs), g)

\* The first of the indices `hit`, or n + 1 when there is none.
FirstOr(hit, n) == IF hit = <<>> THEN n + 1 ELSE hit[1]

\* Iterating set(self.folder_map.keys()): the process's order of those ids.
FolderIdOrder(fm) == SelectSeq(hashOrder, LAMBDA id : id \in DOMAIN fm)

\* Lines 83-87: what the loop appends for one folder.
IsRootFolder(fm, f) == f.parents = <<>>
\* Slips: `if` for the `elif` of line 85; only parents[0] tested at line 85.
IsOrphanNoElif(fm, f) ==
  ~ \E k \in 1..Len(f.parents) : f.parents[k] \in DOMAIN fm
IsOrphanFirstParent(fm, f) ==
  /\ f.parents # <<>>
  /\ f.parents[1] \notin DOMAIN fm
IsOrphanFolder(fm, f) ==
  /\ ~IsRootFolder(fm, f)
  /\ ~ \E k \in 1..Len(f.parents) : f.parents[k] \in DOMAIN fm

RECURSIVE CoerceSizes(_, _)
\* Lines 97-102 over the items `todo` of ents: int(size), 0 on ValueError; any
\* other exception leaves the loop where it is.
CoerceSizes(ents, todo) ==
  IF todo = <<>> THEN [exc |-> "", ents |-> ents]
  ELSE LET i == todo[1]
           r == PyInt(ents[i].size)
       IN IF r.exc = "TypeError" THEN [exc |-> r.exc, ents |-> ents]
          ELSE CoerceSizes(
                 [ents EXCEPT ![i].size =
                    SizeInt(IF r.exc = "ValueError" THEN 0 ELSE r.v)],
                 Tail(todo))

RECURSIVE CountTypes(_, _, _)
\* Lines 90-92.
CountTypes(ft, ents, i) ==
  IF i > Len(ents) THEN ft
  ELSE CountTypes(
         IF IsFolder(ents[i]) THEN ft
         ELSE DictIncr(ft, IF ents[i].mimeType = NoMime THEN "unknown"
                           ELSE ents[i].mimeType),
         ents, i + 1)

\* The `except Exception` of load_data: the error is printed, nothing is undone.
LoadFailed(s) == [s EXCEPT !.loads.failed = @ + 1]

LargestKeep == 100

LoadData(s0) ==
  LET s == [s0 EXCEPT !.loads.tried = @ + 1] IN
  IF ~input.ok THEN LoadFailed(s)
  ELSE
    LET g == Len(s.objs) + 1
        ents == input.entries
        n == Len(ents)
        fold == SelectSeq(Indices(ents), LAMBDA i : IsFolder(ents[i]))
        s1 == [s EXCEPT !.objs = Append(@, ents), !.files = g,
                        !.folders = [k \in 1..Len(fold) |-> Ref(g, fold[k])]]
    IN
    IF \E k \in 1..Len(fold) : ents[fold[k]].id = NoId THEN LoadFailed(s1)
    ELSE
      LET ids == {ents[fold[k]].id : k \in 1..Len(fold)}
          lastOf(id) == CHOOSE i \in Range(fold) :
                          /\ ents[i].id = id
                          /\ \A j \in Range(fold) : ents[j].id = id => j <= i
          fm == [id \in ids |-> Ref(g, lastOf(id))]
          bad == FirstOr(SelectSeq(Indices(ents),
                                   LAMBDA i : /\ ents[i].parents # <<>>
                                              /\ ents[i].id = NoId), n)
          cm == AddChildren(s.children_map, ParentPairs(ents, 1, bad - 1), g)
          s2 == [s1 EXCEPT !.folder_map = fm, !.children_map = cm]
      IN
      IF bad <= n THEN LoadFailed(s2)
      ELSE
        LET order == FolderIdOrder(fm)
            fo(k) == ents[fm[order[k]].i]
            rootIdx == SelectSeq(Indices(order),
                                 LAMBDA k : IsRootFolder(fm, fo(k)))
            orphIdx == SelectSeq(Indices(order),
                                 LAMBDA k : IsOrphanFolder(fm, fo(k)))
            roots == [k \in 1..Len(rootIdx) |-> fm[order[rootIdx[k]]]]
            orphans == [k \in 1..Len(orphIdx) |-> fm[order[orphIdx[k]]]]
            ft == CountTypes(s.file_types, ents, 1)
            nonf == SelectSeq(Indices(ents),
                              LAMBDA i : ~IsFolder(ents[i]) /\ HasSize(ents[i]))
            co == CoerceSizes(ents, nonf)
            s3 == [s2 EXCEPT !.root_folders = @ \o roots,
                             !.orphan_folders = @ \o orphans,
                             !.file_types = ft,
                             !.objs[g] = co.ents]
        IN
        IF co.exc # "" THEN LoadFailed(s3)
        ELSE
          LET keys == [k \in 1..Len(nonf) |-> co.ents[nonf[k]].size.v]
              srt == SortedDesc([k \in 1..Len(nonf) |-> Ref(g, nonf[k])], keys)
              keep == IF Len(srt) < LargestKeep THEN Len(srt) ELSE LargestKeep
          IN [s3 EXCEPT !.largest_files = SubSeq(srt, 1, keep),
                        !.loaded = TRUE]

\* -------------------------------------------------------- get_folder_path
\* The names of the model in ascending order of Python's string comparison;
\* they are lower case, so x['name'].lower() is x['name'].
NameOrder ==
  <<"a", "a.txt", "b", "b.txt", "backup.zip", "f", "old_backup.tmp",
    "photo.jpg", "r", "spreadsheet.txt">>
NameRank(name) == CHOOSE k \in 1..Len(NameOrder) : NameOrder[k] = name

RECURSIVE GfpMutant(_, _, _, _, _)
\* get_folder_path with one slip: "no guard" drops lines 118-119, "no lookup"
\* drops lines 123-124 (the missing key raises), "cycle as unknown" returns
\* the wrong sentinel at line 119, "last parent" takes parents[-1] at line 133.
GfpMutant(s, folder_id, visited, frame, slip) ==
  IF frame > RecursionLimit THEN
    [exc |-> "RecursionError", path |-> <<>>, depth |-> RecursionLimit]
  ELSE IF slip # "no guard" /\ folder_id \in visited THEN
    [exc |-> "",
     path |-> IF slip = "cycle as unknown" THEN <<UNKNOWN>> ELSE <<CYCLIC>>,
     depth |-> frame]
  ELSE IF folder_id \notin DOMAIN s.folder_map THEN
    IF slip = "no lookup" THEN [exc |-> "KeyError", path |-> <<>>, depth |-> frame]
    ELSE [exc |-> "", path |-> <<UNKNOWN>>, depth |-> frame]
  ELSE
    LET folder == s.objs[s.folder_map[folder_id].g][s.folder_map[folder_id].i] IN
    IF folder.parents = <<>> THEN
      [exc |-> "", path |-> <<folder.name>>, depth |-> frame]
    ELSE
      LET r == GfpMutant(s,
                         IF slip = "last parent"
                         THEN folder.parents[Len(folder.parents)]
                         ELSE folder.parents[1],
                         visited \cup {folder_id}, frame + 1, slip)
      IN IF r.exc # "" THEN r ELSE [r EXCEPT !.path = Append(@, folder.name)]

GfpNoCycleGuard(s, folder_id, visited, frame) ==
  GfpMutant(s, folder_id, visited, frame, "no guard")
GfpNoLookup(s, folder_id, visited, frame) ==
  GfpMutant(s, folder_id, visited, frame, "no lookup")
GfpCycleAsUnknown(s, folder_id, visited, frame) ==
  GfpMutant(s, folder_id, visited, frame, "cycle as unknown")
GfpLastParent(s, folder_id, visited, frame) ==
  GfpMutant(s, folder_id, visited, frame, "last parent")

\* A call that would exceed the interpreter's recursion limit raises.
Overflow == [exc |-> "RecursionError", path |-> <<>>, depth |-> RecursionLimit]

RECURSIVE get_folder_path(_, _, _, _)
\* Lines 113-136. `frame` is the number of nested get_folder_path frames this
\* call makes (1 for the caller's call); the result carries the deepest one.
get_folder_path(s, folder_id, visited, frame) ==
  IF frame > RecursionLimit THEN Overflow
  ELSE IF folder_id \in visited THEN
    [exc |-> "", path |-> <<CYCLIC>>, depth |-> frame]
  ELSE IF folder_id \notin DOMAIN s.folder_map THEN
    [exc |-> "", path |-> <<UNKNOWN>>, depth |-> frame]
  ELSE
    LET folder == Deref(s, s.folder_map[folder_id]) IN
    IF folder.parents = <<>> THEN
      [exc |-> "", path |-> <<folder.name>>, depth |-> frame]
    ELSE
      LET r == get_folder_path(s, folder.parents[1],
                               visited \cup {folder_id}, frame + 1)
      IN IF r.exc # "" THEN r ELSE [r EXCEPT !.path = Append(@, folder.name)]

\* ------------------------------------------------------ analyze_structure
IsFolderRef(s, r) == IsFolder(Deref(s, r))
NameKeys(s, refs) == [k \in 1..Len(refs) |-> NameRank(Deref(s, refs[k]).name)]

\* The calls print_folder_tree(child['id'], depth) of one loop, in order.
TreeCalls(s, kids, depth) ==
  [k \in 1..Len(kids) |-> [id |-> Deref(s, kids[k]).id, depth |-> depth]]

RECURSIVE print_folder_tree(_, _, _)
RECURSIVE PrintFolder(_, _, _, _)
\* Lines 150-162, one call print_folder_tree(folder_id, depth). acc is
\* [exc, lines, cm]: the exception raised, the lines written and children_map
\* (reading self.children_map[folder_id] inserts a missing key). A call at
\* depth d is frame d + 1, and its line starts with "  " * d: 2 * d spaces.
PrintFolder(s, acc, folder_id, depth) ==
  IF depth + 1 > RecursionLimit THEN [acc EXCEPT !.exc = "RecursionError"]
  ELSE IF folder_id \notin DOMAIN s.folder_map THEN acc
  ELSE
    LET folder == Deref(s, s.folder_map[folder_id])
        cm == DictTouch(acc.cm, folder_id)
        children == SelectSeq(cm[folder_id], LAMBDA r : IsFolderRef(s, r))
        line == [section |-> "roots", indent |-> 2 * depth,
                 name |-> folder.name, id |-> folder_id]
    IN Value({print_folder_tree(s, x.acc, x.todo) :
                x \in {[acc |-> [acc EXCEPT !.lines = Append(@, line),
                                            !.cm = cm],
                        todo |-> TreeCalls(s, SortedAsc(children,
                                                        NameKeys(s, children)),
                                           depth + 1)]}})

\* The loops of lines 161-162 and 166-167: the calls `todo` one after the
\* other; an exception ends the loop.
print_folder_tree(s, acc, todo) ==
  IF todo = <<>> \/ acc.exc # "" THEN acc
  ELSE Value({print_folder_tree(s, x, Tail(todo)) :
                x \in {PrintFolder(s, acc, todo[1].id, todo[1].depth)}})

\* open(name, 'w') and what the pass wrote to the file before it returned or
\* raised.
Written(s, name, content) ==
  [s EXCEPT !.outputs = [x \in DOMAIN @ \cup {name} |->
                           IF x = name THEN content ELSE @[x]]]

\* The guard that opens every pass: if not self.loaded: self.load_data().
Loaded(s) == IF s.loaded THEN s ELSE LoadData(s)

\* Lines 143-175.
structure_body(s) ==
  LET roots == SortedAsc(s.root_folders, NameKeys(s, s.root_folders))
      orph == SortedAsc(s.orphan_folders, NameKeys(s, s.orphan_folders))
      orphLines == [k \in 1..Len(orph) |->
                      [section |-> "orphans", indent |-> 0,
                       name |-> Deref(s, orph[k]).name,
                       id |-> Deref(s, orph[k]).id]]
  IN Value({[Written(s, "STRUCTURE_OUTPUT",
                      IF tree.exc # "" THEN tree.lines
                      ELSE tree.lines \o orphLines)
               EXCEPT !.children_map = tree.cm, !.raised = tree.exc] :
            tree \in {print_folder_tree(
                        s, [exc |-> "", lines |-> <<>>, cm |-> s.children_map],
                        TreeCalls(s, roots, 0))}})

\* Lines 138-175.
analyze_structure(s0) == Value({structure_body(s) : s \in {Loaded(s0)}})

\* ------------------------------------------------------- duplicate passes
\* Lines 204-208: the path a report shows for a file.
ParentPath(s, r) ==
  IF Deref(s, r).parents # <<>>
  THEN get_folder_path(s, Deref(s, r).parents[1], {}, 1).path
  ELSE <<NO_PARENT>>

\* The keys of a dict filled in the order of `keys`: the index of the first
\* occurrence of each.
FirstOccurrences(keys) ==
  SelectSeq(Indices(keys), LAMBDA k : \A j \in 1..(k - 1) : keys[j] # keys[k])

\* defaultdict(list) filled with items[k] under keys[k]: its value lists, in
\* the order of the keys.
GroupsBy(items, keys) ==
  LET first == FirstOccurrences(keys) IN
  [g \in 1..Len(first) |->
     LET idx == SelectSeq(Indices(keys), LAMBDA k : keys[k] = keys[first[g]])
     IN [k \in 1..Len(idx) |-> items[idx[k]]]]

\* Slip: the size joins the key of line 187.
PotentialKeyWithSize(e) == <<e.name, e.size>>
\* Line 187: the key the files are grouped under.
PotentialKey(e) == e.name

\* Lines 182-216.
potential_body(s) ==
  LET nonf == SelectSeq(FilesOf(s), LAMBDA r : ~IsFolderRef(s, r))
      groups == GroupsBy(nonf, [k \in 1..Len(nonf) |->
                                   PotentialKey(Deref(s, nonf[k]))])
      dups == SelectSeq(groups, LAMBDA grp : Len(grp) > 1)
      srt == SortedDesc(dups, [k \in 1..Len(dups) |-> Len(dups[k])])
      \* file_ids = [f['id'] for f in files] raises for a file without id
      bad == FirstOr(SelectSeq(Indices(srt),
                               LAMBDA k : \E j \in 1..Len(srt[k]) :
                                            Deref(s, srt[k][j]).id = NoId),
                     Len(srt))
      rows == [k \in 1..(bad - 1) |->
                 [name |-> Deref(s, srt[k][1]).name, count |-> Len(srt[k]),
                  ids |-> [j \in 1..Len(srt[k]) |-> Deref(s, srt[k][j]).id],
                  paths |-> [j \in 1..Len(srt[k]) |-> ParentPath(s, srt[k][j])]]]
      found == [k \in 1..(bad - 1) |->
                  [name |-> Deref(s, srt[k][1]).name, count |-> Len(srt[k]),
                   files |-> srt[k]]]
  IN [Written(s, "DUPLICATE_OUTPUT", rows)
        EXCEPT !.potential_duplicates = @ \o found,
               !.raised = IF bad <= Len(srt) THEN "KeyError" ELSE ""]

\* Lines 177-216.
find_potential_duplicates(s0) ==
  Value({potential_body(s) : s \in {Loaded(s0)}})

\* Slip: the name alone is the key of line 229.
ExactKeyNameOnly(e, v) == <<e.name>>
\* Line 229: the key the files are grouped under, v being int(file['size']).
ExactKey(e, v) == <<e.name, v>>

\* Lines 223-262.
exact_body(s) ==
  LET cand == SelectSeq(FilesOf(s),
                        LAMBDA r : ~IsFolderRef(s, r) /\ HasSize(Deref(s, r)))
      ints == [k \in 1..Len(cand) |-> PyInt(Deref(s, cand[k]).size)]
      bad == FirstOr(SelectSeq(Indices(cand), LAMBDA k : ints[k].exc # ""),
                     Len(cand))
  IN
  IF bad <= Len(cand) THEN [s EXCEPT !.raised = ints[bad].exc]
  ELSE
    LET groups == GroupsBy(cand, [k \in 1..Len(cand) |->
                                    ExactKey(Deref(s, cand[k]), ints[k].v)])
        dups == SelectSeq(groups, LAMBDA grp : Len(grp) > 1)
        dupes == [k \in 1..Len(dups) |->
                    [name |-> Deref(s, dups[k][1]).name,
                     size |-> PyInt(Deref(s, dups[k][1]).size).v,
                     files |-> dups[k], count |-> Len(dups[k])]]
        srt == SortedDesc(dupes, [k \in 1..Len(dupes) |-> dupes[k].size])
        rows == [k \in 1..Len(srt) |->
                   [name |-> srt[k].name, size |-> srt[k].size,
                    count |-> srt[k].count,
                    paths |-> [j \in 1..srt[k].count |->
                                 ParentPath(s, srt[k].files[j])]]]
    IN [Written(s, "EXACT_DUPES_OUTPUT", rows) EXCEPT !.exact_duplicates = srt]

\* Lines 218-262.
find_exact_duplicates(s0) == Value({exact_body(s) : s \in {Loaded(s0)}})

\* ------------------------------------------------------------- age passes
\* createdTime is kept as the age now - created_date, in half days:
\* (now - created_date).days is the age divided by HalfDaysPerDay, rounded down,
\* and created_date < now - timedelta(days=d) is age > d * HalfDaysPerDay.
HalfDaysPerDay == 2
AgeDays(e) == e.createdTime[1] \div HalfDaysPerDay
DefaultDaysThreshold == 365
VeryOldDays == 1095
OldDays == 730
DeepLevel == 7
UnusedScore == 3

\* Lines 286-289, 337 and 355-357: "/" or the path of the first parent.
FilePath(s, r) ==
  IF Deref(s, r).parents # <<>>
  THEN get_folder_path(s, Deref(s, r).parents[1], {}, 1).path
  ELSE <<"">>

\* What building the result dict of lines 292-295 and 374-377 raises for a
\* file: file['id'] first, int(file.get('size', 0)) later.
RecordExc(e) ==
  IF e.id = NoId THEN "KeyError"
  ELSE IF HasSize(e) THEN PyInt(e.size).exc ELSE ""

RecordSize(e) == IF HasSize(e) THEN PyInt(e.size).v ELSE 0

\* Slip: created_date <= threshold_date at line 284.
OlderOrSame(e, days_threshold) ==
  e.createdTime # <<>> /\ e.createdTime[1] >= days_threshold * HalfDaysPerDay
\* Lines 273 and 279-284: the entry has a createdTime, and it lies before
\* now - timedelta(days=days_threshold).
Older(e, days_threshold) ==
  e.createdTime # <<>> /\ e.createdTime[1] > days_threshold * HalfDaysPerDay

\* Lines 269-311.
old_body(s, days_threshold) ==
  LET hit == SelectSeq(FilesOf(s),
                       LAMBDA r : /\ ~IsFolderRef(s, r)
                                  /\ Older(Deref(s, r), days_threshold))
      bad == FirstOr(SelectSeq(Indices(hit),
                               LAMBDA k : RecordExc(Deref(s, hit[k])) # ""),
                     Len(hit))
  IN
  IF bad <= Len(hit) THEN [s EXCEPT !.raised = RecordExc(Deref(s, hit[bad]))]
  ELSE
    LET found == [k \in 1..Len(hit) |->
                    [id |-> Deref(s, hit[k]).id, name |-> Deref(s, hit[k]).name,
                     path |-> FilePath(s, hit[k]),
                     created |-> Deref(s, hit[k]).createdTime[1],
                     age_days |-> AgeDays(Deref(s, hit[k])),
                     size |-> RecordSize(Deref(s, hit[k]))]]
        srt == SortedDesc(found, [k \in 1..Len(found) |-> found[k].age_days])
    IN [Written(s, "OLD_FILES_OUTPUT", srt) EXCEPT !.old_files = srt]

\* Lines 264-311.
find_old_files(s0, days_threshold) ==
  Value({old_body(s, days_threshold) : s \in {Loaded(s0)}})

\* pattern.search(file['name']) for the patterns of lines 321-322 on the names
\* of the model: the patterns that match.
BackupPatternsIn(name) ==
  CASE name = "backup.zip" -> {"backup"}
    [] name = "old_backup.tmp" -> {"tmp", "backup", "old"}
    [] OTHER -> {}
\* The names of the model that one of the patterns of lines 321-322 matches.
BackupNames == {nm \in Range(NameOrder) : BackupPatternsIn(nm) # {}}

\* Slip: no break at line 369, every matching pattern adds 2.
PatternScorePerPattern(name) == 2 * Cardinality(BackupPatternsIn(name))
\* Lines 365-369: the first matching pattern adds 2 and ends the loop.
PatternScore(name) == IF name \in BackupNames THEN 2 ELSE 0

\* Slip: the threshold of line 372 as it was before ("Was 2").
RetainedFromTwo(score) == score >= 2
\* Line 372.
Retained(score) == score >= UnusedScore

\* Lines 335-369: the score of a file and its reasons.
UnusedScoring(s, r) ==
  LET e == Deref(s, r)
      age == IF e.createdTime = <<>> THEN <<>>
             ELSE IF AgeDays(e) > VeryOldDays THEN <<[score |-> 2, why |-> "Zeer oud"]>>
             ELSE IF AgeDays(e) > OldDays THEN <<[score |-> 1, why |-> "Oud"]>>
             ELSE <<>>
      path == FilePath(s, r)
      deep == IF e.parents # <<>> /\ Len(path) > DeepLevel
              THEN <<[score |-> 1, why |-> "Diep genest"]>> ELSE <<>>
      pat == IF e.name \in BackupNames
             THEN <<[score |-> 2, why |-> "Backup/temp patroon"]>> ELSE <<>>
      all == age \o deep \o pat
  IN [score |-> (IF age = <<>> THEN 0 ELSE age[1].score)
                + (IF deep = <<>> THEN 0 ELSE 1) + PatternScore(e.name),
      reasons |-> [k \in 1..Len(all) |-> all[k].why],
      path |-> path]

\* Lines 318-392.
unused_body(s) ==
  LET hit == SelectSeq(FilesOf(s),
                       LAMBDA r : /\ ~IsFolderRef(s, r)
                                  /\ Retained(UnusedScoring(s, r).score))
      bad == FirstOr(SelectSeq(Indices(hit),
                               LAMBDA k : RecordExc(Deref(s, hit[k])) # ""),
                     Len(hit))
  IN
  IF bad <= Len(hit) THEN [s EXCEPT !.raised = RecordExc(Deref(s, hit[bad]))]
  ELSE
    LET found == [k \in 1..Len(hit) |->
                    [id |-> Deref(s, hit[k]).id, name |-> Deref(s, hit[k]).name,
                     score |-> UnusedScoring(s, hit[k]).score,
                     reasons |-> UnusedScoring(s, hit[k]).reasons,
                     size |-> RecordSize(Deref(s, hit[k])),
                     path |-> UnusedScoring(s, hit[k]).path]]
        srt == SortedDesc(found, [k \in 1..Len(found) |-> found[k].score])
    IN [Written(s, "UNUSED_FILES_OUTPUT", srt) EXCEPT !.unused_files = srt]

\* Lines 313-392.
find_unused_files(s0) == Value({unused_body(s) : s \in {Loaded(s0)}})

\* ------------------------------------------------------- categorize_files
\* The keys of category_patterns, in the order of lines 47-55.
CategoryOrder ==
  <<"Photos", "Documents", "Spreadsheets", "Presentations", "Videos", "Audio",
    "Archives", "Code">>

\* re.search of the patterns of a category on the names and on the MIME types
\* of the model: those one of its patterns matches.
NamesMatching(category) ==
  CASE category = "Photos" -> {"photo.jpg"}
    [] category = "Documents" -> {"a.txt", "b.txt", "spreadsheet.txt"}
    [] category = "Spreadsheets" -> {"spreadsheet.txt"}
    [] category = "Archives" -> {"backup.zip"}
    [] OTHER -> {}
MimesMatching(category) ==
  CASE category = "Photos" -> {"image/png"}
    [] category = "Documents" -> {"text/plain"}
    [] category = "Audio" -> {"audio/mpeg"}
    [] category = "Archives" -> {"application/zip"}
    [] OTHER -> {}

\* Slip: the last category with a matching pattern wins.
CategoryOfLastMatch(e) ==
  LET hit == SelectSeq(CategoryOrder,
                       LAMBDA c : \/ e.name \in NamesMatching(c)
                                  \/ e.mimeType \in MimesMatching(c))
  IN IF hit = <<>> THEN "Other" ELSE hit[Len(hit)]

\* Lines 488-505: the category a file is appended to.
CategoryOf(e) ==
  LET hit == SelectSeq(CategoryOrder,
                       LAMBDA c : \/ e.name \in NamesMatching(c)
                                  \/ e.mimeType \in MimesMatching(c))
  IN IF hit = <<>> THEN "Other" ELSE hit[1]

\* Lines 480-516.
categorize_body(s) ==
  LET nonf == SelectSeq(FilesOf(s), LAMBDA r : ~IsFolderRef(s, r))
      cats == {CategoryOf(Deref(s, nonf[k])) : k \in 1..Len(nonf)}
      found == [c \in cats |->
                  SelectSeq(nonf, LAMBDA r : CategoryOf(Deref(s, r)) = c)]
  IN [Written(s, "CATEGORIES_OUTPUT", [c \in cats |-> Len(found[c])])
        EXCEPT !.categories = found]

\* Lines 475-516.
categorize_files(s0) == Value({categorize_body(s) : s \in {Loaded(s0)}})

\* ----------------------------------------------------- generate_statistics
RECURSIVE SumSeq(_)
SumSeq(ns) == IF ns = <<>> THEN 0 ELSE ns[1] + SumSeq(Tail(ns))

\* sum(int(f.get('size', 0)) for f in self.files if 'size' in f), lines 526
\* and 700: every entry with a size is summed, the folders too.
TotalSize(s) ==
  LET sized == SelectSeq(FilesOf(s), LAMBDA r : HasSize(Deref(s, r)))
      ints == [k \in 1..Len(sized) |-> PyInt(Deref(s, sized[k]).size)]
      bad == FirstOr(SelectSeq(Indices(sized), LAMBDA k : ints[k].exc # ""),
                     Len(sized))
  IN IF bad <= Len(sized) THEN [exc |-> ints[bad].exc, v |-> 0]
     ELSE [exc |-> "", v |-> SumSeq([k \in 1..Len(sized) |-> ints[k].v])]

\* Lines 529-533 and 690-694; folder['id'] raises for a folder without id.
MaxDepth(s) ==
  IF \E k \in 1..Len(s.folders) : Deref(s, s.folders[k]).id = NoId
  THEN [exc |-> "KeyError", v |-> 0]
  ELSE LET paths == [k \in 1..Len(s.folders) |->
                       get_folder_path(s, Deref(s, s.folders[k]).id, {}, 1)]
           depths == {0} \cup {Len(paths[k].path) : k \in 1..Len(paths)}
       IN [exc |-> "", v |-> CHOOSE d \in depths : \A x \in depths : x <= d]

\* The keys of self.folder_map in the order the dict keeps them: the order in
\* which the ids first occur among the folders it was built from (line 69).
FolderMapKeys(s) ==
  IF DOMAIN s.folder_map = {} THEN <<>>
  ELSE LET g == s.folder_map[CHOOSE id \in DOMAIN s.folder_map : TRUE].g
           ents == s.objs[g]
           fold == SelectSeq(Indices(ents), LAMBDA i : IsFolder(ents[i]))
           ids == [k \in 1..Len(fold) |-> ents[fold[k]].id]
           first == FirstOccurrences(ids)
       IN [k \in 1..Len(first) |-> ids[first[k]]]

\* self.children_map[folder_id] read for every key of folder_map (lines
\* 536-539): the missing keys are inserted.
TouchAll(cm, keys) ==
  [x \in DOMAIN cm \cup Range(keys) |-> IF x \in DOMAIN cm THEN cm[x] ELSE <<>>]

NonFolders(s, refs) == SelectSeq(refs, LAMBDA r : ~IsFolderRef(s, r))

TopKeep == 20
Head20(seq) == SubSeq(seq, 1, IF Len(seq) < TopKeep THEN Len(seq) ELSE TopKeep)

\* What the dict of lines 562-565 raises for one of the largest files:
\* int(f.get('size', 0)) is evaluated before f['id'].
LargestExc(e) ==
  IF HasSize(e) /\ PyInt(e.size).exc # "" THEN PyInt(e.size).exc
  ELSE IF e.id = NoId THEN "KeyError" ELSE ""

\* Lines 523-568.
statistics_body(s) ==
  IF TotalSize(s).exc # "" THEN [s EXCEPT !.raised = TotalSize(s).exc]
  ELSE IF MaxDepth(s).exc # "" THEN [s EXCEPT !.raised = MaxDepth(s).exc]
  ELSE
    LET keys == FolderMapKeys(s)
        cm == TouchAll(s.children_map, keys)
        counts == [k \in 1..Len(keys) |-> Len(NonFolders(s, cm[keys[k]]))]
        rows == [k \in 1..Len(keys) |->
                   [name |-> Deref(s, s.folder_map[keys[k]]).name,
                    files_count |-> counts[k], id |-> keys[k]]]
        top == Head20(s.largest_files)
        bad == FirstOr(SelectSeq(Indices(top),
                                 LAMBDA k : LargestExc(Deref(s, top[k])) # ""),
                       Len(top))
        s1 == [s EXCEPT !.children_map = cm]
    IN
    IF bad <= Len(top) THEN [s1 EXCEPT !.raised = LargestExc(Deref(s, top[bad]))]
    ELSE Written(s1, "STATS_OUTPUT",
           [total_files |-> Len(FilesOf(s)) - Len(s.folders),
            total_folders |-> Len(s.folders),
            total_size_bytes |-> TotalSize(s).v,
            max_folder_depth |-> MaxDepth(s).v,
            root_folders_count |-> Len(s.root_folders),
            orphan_folders_count |-> Len(s.orphan_folders),
            file_types |-> s.file_types,
            categories |-> [c \in DOMAIN s.categories |-> Len(s.categories[c])],
            duplicate_count |-> Len(s.potential_duplicates),
            exact_duplicate_count |-> Len(s.exact_duplicates),
            old_files_count |-> Len(s.old_files),
            unused_files_count |-> Len(s.unused_files),
            crowded_folders |-> Head20(SortedDesc(rows, counts)),
            largest_files |-> [k \in 1..Len(top) |->
                                 [name |-> Deref(s, top[k]).name,
                                  size_bytes |-> RecordSize(Deref(s, top[k])),
                                  id |-> Deref(s, top[k]).id]]])

\* Lines 518-568.
generate_statistics(s0) == Value({statistics_body(s) : s \in {Loaded(s0)}})

\* ---------------------------------------------------- generate_suggestions
RootLimit == 10
CrowdedThreshold == 100
PrefixLimit == 3
StopWords == {"the", "a", "de", "het", "een"}

ReclaimablePlusOne(s) ==
  SumSeq([k \in 1..Len(s.exact_duplicates) |->
            s.exact_duplicates[k].size * (s.exact_duplicates[k].count + 1)])
\* sum(d['size'] * (d['count'] - 1) for d in self.exact_duplicates), lines
\* 441 and 634-635.
Reclaimable(s) ==
  SumSeq([k \in 1..Len(s.exact_duplicates) |->
            s.exact_duplicates[k].size * (s.exact_duplicates[k].count - 1)])

\* Lines 584-680. The content kept of the file is what each suggestion
\* counts (0 or an empty dict for a suggestion that is not made); the lines
\* naming the five most crowded folders and prefixes are left out. The names
\* of the model are single words, so name.split()[0] is the name.
suggestions_body(s) ==
  LET fm == s.folder_map
      cm == s.children_map
      empty == {id \in DOMAIN fm : id \notin DOMAIN cm \/ cm[id] = <<>>}
      crowded == {id \in DOMAIN cm \cap DOMAIN fm :
                    Len(NonFolders(s, cm[id])) > CrowdedThreshold}
      names == [k \in 1..Len(s.folders) |-> Deref(s, s.folders[k]).name]
      common == {nm \in Range(names) :
                   Count(names, nm) > PrefixLimit /\ nm \notin StopWords}
  IN Written(s, "SUGGESTIONS_OUTPUT",
       [root_folders |-> IF Len(s.root_folders) > RootLimit
                         THEN Len(s.root_folders) ELSE 0,
        empty_folders |-> Cardinality(empty),
        crowded_folders |-> Cardinality(crowded),
        duplicate_names |-> Len(s.potential_duplicates),
        duplicate_files |-> SumSeq([k \in 1..Len(s.potential_duplicates) |->
                                      s.potential_duplicates[k].count]),
        exact_sets |-> Len(s.exact_duplicates),
        dupes_size |-> Reclaimable(s),
        old_files |-> Len(s.old_files),
        prefixes |-> [nm \in common |-> Count(names, nm)]])

\* Lines 579-680.
generate_suggestions(s0) == Value({suggestions_body(s) : s \in {Loaded(s0)}})

\* -------------------------------------------- generate_reorganization_plan
\* Line 411-412.
MainCategories ==
  <<"Documents", "Photos", "Videos", "Spreadsheets", "Presentations", "Music",
    "Archives", "Code">>

\* Lines 401-471: the folders proposed with their file counts, and the counts
\* of sections 2 to 4.
plan_body(s) ==
  LET shown == SelectSeq(MainCategories,
                         LAMBDA c : /\ c \in DOMAIN s.categories
                                    /\ Len(s.categories[c]) > 0)
      other == IF "Other" \in DOMAIN s.categories THEN <<"Other">> ELSE <<>>
      listed == shown \o other
  IN Written(s, "REORG_PLAN_OUTPUT",
       [structure |-> [k \in 1..Len(listed) |->
                         [category |-> listed[k],
                          file_count |-> Len(s.categories[listed[k]])]],
        exact_sets |-> Len(s.exact_duplicates),
        saving |-> Reclaimable(s),
        old_files |-> Len(s.old_files),
        unused_files |-> Len(s.unused_files)])

\* Lines 394-473: categorize_files runs first when self.categories is empty.
generate_reorganization_plan(s0) ==
  Value({plan_body(s) :
           s \in {IF DOMAIN s0.categories = {} THEN categorize_files(s0) ELSE s0}})

\* --------------------------------------------------- create_visualization
\* What the loop of lines 867-870 raises for the files of one folder, in
\* order: int(file.get('size', 0)) of the first size it cannot convert.
FileRowsExc(s, refs) ==
  LET hit == SelectSeq(refs, LAMBDA r : /\ HasSize(Deref(s, r))
                                        /\ PyInt(Deref(s, r).size).exc # "")
  IN IF hit = <<>> THEN "" ELSE PyInt(Deref(s, hit[1]).size).exc

RECURSIVE generate_folder_html(_, _, _)
RECURSIVE FolderHtml(_, _, _, _)
\* Lines 839-876, one call generate_folder_html(folder_id): the item of the
\* folder, the calls for its subfolders, then the loop over its files. acc is
\* [exc, html, cm]; html keeps the <li> items in the order they are made.
FolderHtml(s, acc, folder_id, depth) ==
  IF depth + 1 > RecursionLimit THEN [acc EXCEPT !.exc = "RecursionError"]
  ELSE IF folder_id \notin DOMAIN s.folder_map THEN acc
  ELSE
    LET cm == DictTouch(acc.cm, folder_id)
        subfolders == SelectSeq(cm[folder_id], LAMBDA r : IsFolderRef(s, r))
        filesIn == NonFolders(s, cm[folder_id])
        refs == SortedAsc(filesIn, NameKeys(s, filesIn))
        item == [kind |-> "folder", depth |-> depth,
                 name |-> Deref(s, s.folder_map[folder_id]).name]
    IN Value({IF sub.exc # "" THEN sub
              ELSE IF FileRowsExc(s, refs) # ""
              THEN [sub EXCEPT !.exc = FileRowsExc(s, refs)]
              ELSE [sub EXCEPT !.html = @ \o
                      [k \in 1..Len(refs) |->
                         [kind |-> "file", depth |-> depth + 1,
                          name |-> Deref(s, refs[k]).name]]] :
              sub \in {generate_folder_html(
                         s, [acc EXCEPT !.html = Append(@, item), !.cm = cm],
                         TreeCalls(s, SortedAsc(subfolders,
                                                NameKeys(s, subfolders)),
                                   depth + 1))}})

\* The loops of lines 864-865 and 880-881: the calls `todo` one after the
\* other; an exception ends the loop.
generate_folder_html(s, acc, todo) ==
  IF todo = <<>> \/ acc.exc # "" THEN acc
  ELSE Value({generate_folder_html(s, x, Tail(todo)) :
                x \in {FolderHtml(s, acc, todo[1].id, todo[1].depth)}})

\* Lines 687-895: the file is written at the end, so not when a step raises.
visualization_body(s) ==
  IF MaxDepth(s).exc # "" THEN [s EXCEPT !.raised = MaxDepth(s).exc]
  ELSE IF TotalSize(s).exc # "" THEN [s EXCEPT !.raised = TotalSize(s).exc]
  ELSE
    LET roots == SortedAsc(s.root_folders, NameKeys(s, s.root_folders)) IN
    Value({IF tree.exc # ""
           THEN [s EXCEPT !.children_map = tree.cm, !.raised = tree.exc]
           ELSE [Written(s, "VISUALIZATION_OUTPUT",
                         [folder_tree |-> tree.html,
                          total_files |-> Len(FilesOf(s)) - Len(s.folders),
                          total_folders |-> Len(s.folders),
                          total_size |-> TotalSize(s).v,
                          max_depth |-> MaxDepth(s).v])
                   EXCEPT !.children_map = tree.cm] :
           tree \in {generate_folder_html(
                       s, [exc |-> "", html |-> <<>>, cm |-> s.children_map],
                       TreeCalls(s, roots, 0))}})

\* Lines 682-895.
create_visualization(s0) == Value({visualization_body(s) : s \in {Loaded(s0)}})

\* ------------------------------------------------------------ analyze_all
\* The passes in the order of lines 913-922.
PassOrder ==
  <<"analyze_structure", "find_potential_duplicates", "find_exact_duplicates",
    "categorize_files", "find_old_files", "find_unused_files",
    "generate_statistics", "generate_suggestions",
    "generate_reorganization_plan", "create_visualization">>

RunPass(name, s) ==
  CASE name = "analyze_structure" -> analyze_structure(s)
    [] name = "find_potential_duplicates" -> find_potential_duplicates(s)
    [] name = "find_exact_duplicates" -> find_exact_duplicates(s)
    [] name = "categorize_files" -> categorize_files(s)
    [] name = "find_old_files" -> find_old_files(s, DefaultDaysThreshold)
    [] name = "find_unused_files" -> find_unused_files(s)
    [] name = "generate_statistics" -> generate_statistics(s)
    [] name = "generate_suggestions" -> generate_suggestions(s)
    [] name = "generate_reorganization_plan" -> generate_reorganization_plan(s)
    [] name = "create_visualization" -> create_visualization(s)

RECURSIVE RunPasses(_, _)
\* The passes `todo` one after the other; an exception ends the sequence.
RunPasses(s, todo) ==
  IF todo = <<>> \/ s.raised # "" THEN s
  ELSE Value({RunPasses(x, Tail(todo)) : x \in {RunPass(todo[1], s)}})

\* Lines 910-922: load_data whatever self.loaded is, then the passes.
analyze_all(s0) == Value({RunPasses(s, PassOrder) : s \in {LoadData(s0)}})

\* ---------------------------------------------------------------- inputs
PermSeqs(S) == {f \in [1..Cardinality(S) -> S] : Range(f) = S}

FolderIdsOf(ents) ==
  {ents[i].id : i \in {k \in 1..Len(ents) : IsFolder(ents[k])}} \ {NoId}

\* Parent ids of the generated graphs: the folders A, B and R, the file F and
\* an id X that no entry bears.
ParentIds == {"A", "B", "R", "F", "X"}
ParentLists(n) == UNION {[1..k -> ParentIds] : k \in 0..n}

\* Folder graphs with cycles, self-parents, dangling and multiple parents.
GraphSnapshots ==
  {<<Entry("A", "a", FOLDER, pa, SizeAbsent, <<>>),
     Entry("B", "b", FOLDER, pb, SizeAbsent, <<>>),
     Entry("R", "r", FOLDER, pr, SizeAbsent, <<>>),
     Entry("F", "f", "text/plain", pf, SizeStr(100), <<>>)>> :
     pa \in ParentLists(MaxParents), pb \in ParentLists(1),
     pr \in {<<>>, <<"X">>}, pf \in {<<>>, <<"A", "R">>}}

InitGraph ==
  /\ InitSelf
  /\ input \in {[ok |-> TRUE, entries |-> e] : e \in GraphSnapshots}
  /\ hashOrder \in PermSeqs(FolderIdsOf(input.entries))

\* Snapshots of one small drive: the root folder R with the empty folder A,
\* two files named a.txt of 100 bytes and an old backup under R. A defect is
\* what one snapshot has wrong: nothing, a size that is no integer (on a file
\* or on the folder R), a null size, an entry without id, or a file that is
\* no JSON at all.
Defects ==
  {"none", "file size abc", "file size null", "folder size abc",
   "folder without id", "file without id", "unparseable file"}

\* Ages in half days: 1100 days and a half, and 400 days.
VeryOld == <<2201>>
Old == <<800>>

LifeSnapshot(d) ==
  <<Entry(IF d = "folder without id" THEN NoId ELSE "R", "r", FOLDER, <<>>,
          IF d = "folder size abc" THEN SizeBad ELSE SizeAbsent, <<>>),
    Entry("A", "a", FOLDER, <<"R">>, SizeAbsent, <<>>),
    Entry(IF d = "file without id" THEN NoId ELSE "F", "a.txt", "text/plain",
          <<"R">>,
          CASE d = "file size abc" -> SizeBad
            [] d = "file size null" -> SizeNull
            [] OTHER -> SizeStr(100),
          Old),
    Entry("G", "a.txt", "text/plain", <<"R">>, SizeStr(100), <<>>),
    Entry("H", "backup.zip", "application/zip", <<"R">>, SizeAbsent, VeryOld)>>

InitLife ==
  /\ InitSelf
  /\ input \in {[ok |-> d # "unparseable file", entries |-> LifeSnapshot(d)] :
                  d \in Defects}
  /\ hashOrder \in PermSeqs(FolderIdsOf(input.entries))

\* ---------------------------------------------------------------- actions
Called(op, arg, s) ==
  last' = [op |-> op, arg |-> arg, result |-> s.result, raised |-> s.raised]

load_data ==
  \E s \in {LoadData(Self)} :
  /\ Become(s)
  /\ Called("load_data", "", s)
  /\ UNCHANGED <<input, hashOrder, scan>>

\* A caller's get_folder_path(folder_id).
get_folder_path_call(folder_id) ==
  \E r \in {get_folder_path(Self, folder_id, {}, 1)} :
  /\ last' = [op |-> "get_folder_path", arg |-> folder_id,
              result |-> r.path, raised |-> r.exc, depth |-> r.depth]
  /\ UNCHANGED <<input, hashOrder, objs, files, folders, folder_map,
                 children_map, root_folders, orphan_folders, file_types,
                 largest_files, potential_duplicates, exact_duplicates,
                 old_files, unused_files, categories, loaded, outputs,
                 loads, scan>>

analyze_structure_call ==
  \E s \in {analyze_structure(Self)} :
  /\ Become(s)
  /\ Called("analyze_structure", "", s)
  /\ UNCHANGED <<input, hashOrder, scan>>

find_potential_duplicates_call ==
  \E s \in {find_potential_duplicates(Self)} :
  /\ Become(s)
  /\ Called("find_potential_duplicates", "", s)
  /\ UNCHANGED <<input, hashOrder, scan>>

find_exact_duplicates_call ==
  \E s \in {find_exact_duplicates(Self)} :
  /\ Become(s)
  /\ Called("find_exact_duplicates", "", s)
  /\ UNCHANGED <<input, hashOrder, scan>>

find_old_files_call ==
  \E s \in {find_old_files(Self, DefaultDaysThreshold)} :
  /\ Become(s)
  /\ Called("find_old_files", "", s)
  /\ UNCHANGED <<input, hashOrder, scan>>

find_unused_files_call ==
  \E s \in {find_unused_files(Self)} :
  /\ Become(s)
  /\ Called("find_unused_files", "", s)
  /\ UNCHANGED <<input, hashOrder, scan>>

categorize_files_call ==
  \E s \in {categorize_files(Self)} :
  /\ Become(s)
  /\ Called("categorize_files", "", s)
  /\ UNCHANGED <<input, hashOrder, scan>>

generate_statistics_call ==
  \E s \in {generate_statistics(Self)} :
  /\ Become(s)
  /\ Called("generate_statistics", "", s)
  /\ UNCHANGED <<input, hashOrder, scan>>

generate_suggestions_call ==
  \E s \in {generate_suggestions(Self)} :
  /\ Become(s)
  /\ Called("generate_suggestions", "", s)
  /\ UNCHANGED <<input, hashOrder, scan>>

generate_reorganization_plan_call ==
  \E s \in {generate_reorganization_plan(Self)} :
  /\ Become(s)
  /\ Called("generate_reorganization_plan", "", s)
  /\ UNCHANGED <<input, hashOrder, scan>>

create_visualization_call ==
  \E s \in {create_visualization(Self)} :
  /\ Become(s)
  /\ Called("create_visualization", "", s)
  /\ UNCHANGED <<input, hashOrder, scan>>

analyze_all_call ==
  \E s \in {analyze_all(Self)} :
  /\ Become(s)
  /\ Called("analyze_all", "", s)
  /\ UNCHANGED <<input, hashOrder, scan>>

\* ------------------- the public methods of one instance, called in any order
CountCall == calls < MaxCalls /\ calls' = calls + 1

LoadDataCall == CountCall /\ load_data
AnalyzeStructure == CountCall /\ analyze_structure_call
FindPotentialDuplicates == CountCall /\ find_potential_duplicates_call
FindExactDuplicates == CountCall /\ find_exact_duplicates_call
CategorizeFiles == CountCall /\ categorize_files_call
FindOldFiles == CountCall /\ find_old_files_call
FindUnusedFiles == CountCall /\ find_unused_files_call
GenerateStatistics == CountCall /\ generate_statistics_call
GenerateSuggestions == CountCall /\ generate_suggestions_call
GenerateReorganizationPlan == CountCall /\ generate_reorganization_plan_call
CreateVisualization == CountCall /\ create_visualization_call
AnalyzeAll == CountCall /\ analyze_all_call

Next ==
  \/ LoadDataCall
  \/ AnalyzeStructure
  \/ FindPotentialDuplicates
  \/ FindExactDuplicates
  \/ CategorizeFiles
  \/ FindOldFiles
  \/ FindUnusedFiles
  \/ GenerateStatistics
  \/ GenerateSuggestions
  \/ GenerateReorganizationPlan
  \/ CreateVisualization
  \/ AnalyzeAll

Spec == InitLife /\ [][Next]_vars

\* ---------------------------------- queries on a model built by one load
GraphLoad == loads.tried = 0 /\ load_data /\ UNCHANGED calls
GraphPath ==
  /\ loaded
  /\ \E id \in ParentIds : get_folder_path_call(id)
  /\ UNCHANGED calls
GraphStructure == loaded /\ analyze_structure_call /\ UNCHANGED calls
GraphVisualization == loaded /\ create_visualization_call /\ UNCHANGED calls

NextGraph == GraphLoad \/ GraphPath \/ GraphStructure \/ GraphVisualization

SpecGraph == InitGraph /\ [][NextGraph]_vars

\* ------------------------------------------- the duplicate passes on files
\* Files of the generated snapshots besides the fixed ones.
MaxFiles == 4
DupNames == {"a.txt", "b.txt"}
DupSizes == {SizeAbsent, SizeStr(100), SizeStr(200)}
FileIds == <<"F1", "F2", "F3", "F4", "F5", "F6">>

\* The root folder R, a folder named a.txt that carries a size, the files F0,
\* a.txt of 100 bytes, and N, a.txt without size, and MaxFiles files of any of
\* the names and sizes.
DupSnapshots ==
  {<<Entry("R", "r", FOLDER, <<>>, SizeAbsent, <<>>),
     Entry("D", "a.txt", FOLDER, <<"R">>, SizeStr(100), <<>>),
     Entry("F0", "a.txt", "text/plain", <<"R">>, SizeStr(100), <<>>),
     Entry("N", "a.txt", "text/plain", <<"R">>, SizeAbsent, <<>>)>>
   \o [k \in 1..MaxFiles |->
         Entry(FileIds[k], nm[k], "text/plain", <<"R">>, sz[k], <<>>)] :
     nm \in [1..MaxFiles -> DupNames], sz \in [1..MaxFiles -> DupSizes]}

InitDup ==
  /\ InitSelf
  /\ input \in {[ok |-> TRUE, entries |-> e] : e \in DupSnapshots}
  /\ hashOrder = <<"R", "D">>

DupLoad == loads.tried = 0 /\ load_data /\ UNCHANGED calls
DupExact == loaded /\ find_exact_duplicates_call /\ UNCHANGED calls
DupPotential ==
  /\ loaded
  /\ potential_duplicates = <<>>
  /\ find_potential_duplicates_call
  /\ UNCHANGED calls
DupSuggestions == loaded /\ generate_suggestions_call /\ UNCHANGED calls

NextDup == DupLoad \/ DupExact \/ DupPotential \/ DupSuggestions

SpecDup == InitDup /\ [][NextDup]_vars

\* ------------------------------------------- the savings the reports show
\* The same snapshots; each of the four passes runs once, in any order.
SaveExact ==
  /\ loaded
  /\ "EXACT_DUPES_OUTPUT" \notin DOMAIN outputs
  /\ find_exact_duplicates_call
  /\ UNCHANGED calls
SaveStatistics ==
  /\ loaded
  /\ "STATS_OUTPUT" \notin DOMAIN outputs
  /\ generate_statistics_call
  /\ UNCHANGED calls
SaveSuggestions ==
  /\ loaded
  /\ "SUGGESTIONS_OUTPUT" \notin DOMAIN outputs
  /\ generate_suggestions_call
  /\ UNCHANGED calls
SavePlan ==
  /\ loaded
  /\ "REORG_PLAN_OUTPUT" \notin DOMAIN outputs
  /\ generate_reorganization_plan_call
  /\ UNCHANGED calls

NextSave ==
  \/ DupLoad
  \/ SaveExact
  \/ SaveStatistics
  \/ SaveSuggestions
  \/ SavePlan

SpecSave == InitDup /\ [][NextSave]_vars

\* ------------------------------------------------ the categorizer on files
MaxCatFiles == 2
CatNames == {"photo.jpg", "a.txt", "backup.zip", "f", "spreadsheet.txt"}
CatMimes == {NoMime, "text/plain", "image/png", "application/zip", "audio/mpeg"}

\* A root folder named photo.jpg and MaxCatFiles files of any of the names
\* and MIME types.
CatSnapshots ==
  {<<Entry("R", "photo.jpg", FOLDER, <<>>, SizeAbsent, <<>>)>>
   \o [k \in 1..MaxCatFiles |->
         Entry(FileIds[k], nm[k], mt[k], <<"R">>, SizeAbsent, <<>>)] :
     nm \in [1..MaxCatFiles -> CatNames], mt \in [1..MaxCatFiles -> CatMimes]}

InitCat ==
  /\ InitSelf
  /\ input \in {[ok |-> TRUE, entries |-> e] : e \in CatSnapshots}
  /\ hashOrder = <<"R">>

CatLoad == loads.tried = 0 /\ load_data /\ UNCHANGED calls
CatCategorize == loaded /\ categorize_files_call /\ UNCHANGED calls
CatPlan == loaded /\ generate_reorganization_plan_call /\ UNCHANGED calls

NextCat == CatLoad \/ CatCategorize \/ CatPlan

SpecCat == InitCat /\ [][NextCat]_vars

\* ----------------------------------------------------- the age passes on files
\* The calls the generated runs make of find_old_files(days_threshold).
Thresholds == {DefaultDaysThreshold, OldDays}

\* Ages in half days, on both sides of 365, 730 and 1095 days: 365, 365.5,
\* 730.5, 731, 1095.5 and 1096 days.
Ages == {<<>>, <<730>>, <<731>>, <<1461>>, <<1462>>, <<2191>>, <<2192>>}
AgeNames == {"a.txt", "backup.zip", "old_backup.tmp"}
\* No parent, a parent whose path has 7 separators, one whose path has 8.
AgeParents == {<<>>, <<"P7">>, <<"P8">>}
AgeFiles(id) ==
  {Entry(id, nm, "text/plain", pa, SizeStr(100), ct) :
     nm \in AgeNames, pa \in AgeParents, ct \in Ages}

\* The chain of folders P1 ... P8 below one another.
Chain ==
  <<Entry("P1", "a", FOLDER, <<>>, SizeAbsent, <<>>),
    Entry("P2", "a", FOLDER, <<"P1">>, SizeAbsent, <<>>),
    Entry("P3", "a", FOLDER, <<"P2">>, SizeAbsent, <<>>),
    Entry("P4", "a", FOLDER, <<"P3">>, SizeAbsent, <<>>),
    Entry("P5", "a", FOLDER, <<"P4">>, SizeAbsent, <<>>),
    Entry("P6", "a", FOLDER, <<"P5">>, SizeAbsent, <<>>),
    Entry("P7", "a", FOLDER, <<"P6">>, SizeAbsent, <<>>),
    Entry("P8", "b", FOLDER, <<"P7">>, SizeAbsent, <<2201>>)>>

\* The chain and two files of any name, place and age.
AgeSnapshots == {Chain \o <<f1, f2>> : f1 \in AgeFiles("F1"), f2 \in AgeFiles("F2")}

InitAge ==
  /\ InitSelf
  /\ input \in {[ok |-> TRUE, entries |-> e] : e \in AgeSnapshots}
  /\ hashOrder = <<"P1", "P2", "P3", "P4", "P5", "P6", "P7", "P8">>

\* find_old_files(days_threshold) called with a threshold.
find_old_files_with(days_threshold) ==
  \E s \in {find_old_files(Self, days_threshold)} :
  /\ Become(s)
  /\ Called("find_old_files", days_threshold, s)
  /\ UNCHANGED <<input, hashOrder, scan>>

AgeLoad == loads.tried = 0 /\ load_data /\ UNCHANGED calls
AgeOld ==
  /\ loaded
  /\ \E d \in Thresholds : find_old_files_with(d)
  /\ UNCHANGED calls
AgeUnused == loaded /\ find_unused_files_call /\ UNCHANGED calls

NextAge == AgeLoad \/ AgeOld \/ AgeUnused

SpecAge == InitAge /\ [][NextAge]_vars

\* ------------------------------------------------------------- SpecTree
\* Trees for analyze_structure: the folders are given in an order that is not
\* the order of their names, C may bear the name of Y, D may hang below two
\* folders, and C and D may hold each other below the root Z.
TreeSnapshots ==
  {<<Entry("Z", "r", FOLDER, <<>>, SizeAbsent, <<>>),
     Entry("Y", "a", FOLDER, py, SizeAbsent, <<>>),
     Entry("C", nc, FOLDER, pc, SizeAbsent, <<>>),
     Entry("D", "b", FOLDER, pd, SizeAbsent, <<>>),
     Entry("F", "a.txt", "text/plain", pf, SizeStr(100), <<>>)>> :
     py \in {<<>>, <<"Z">>}, nc \in {"f", "a"},
     pc \in {<<>>, <<"Z">>, <<"Y">>, <<"D">>},
     pd \in {<<"Z">>, <<"Y">>, <<"C">>, <<"Z", "Y">>, <<"C", "Z">>},
     pf \in {<<>>, <<"Z">>, <<"Y">>}}

InitTree ==
  /\ InitSelf
  /\ input \in {[ok |-> TRUE, entries |-> e] : e \in TreeSnapshots}
  /\ hashOrder = <<"Z", "Y", "C", "D">>

TreeLoad == loads.tried = 0 /\ load_data /\ UNCHANGED calls
TreeStructure == loaded /\ analyze_structure_call /\ UNCHANGED calls

NextTree == TreeLoad \/ TreeStructure

SpecTree == InitTree /\ [][NextTree]_vars

\* ------------------------------------------------------ _bytes_to_readable
\* A byte count is written in base 1024, most significant digit first and
\* without leading zeros (0 is <<0>>), so that counts beyond the machine
\* integers of the checker keep their exact value: dividing by 1024 moves the
\* point one digit to the left. The counts of the model have at most 53
\* significant bits, for which every quotient is exact in a float.
Base == 1024
MaxDigits == 2

RECURSIVE Nat1024(_)
Nat1024(n) == IF n < Base THEN <<n>> ELSE Append(Nat1024(n \div Base), n % Base)
RECURSIVE Zeros(_)
Zeros(k) == IF k = 0 THEN <<>> ELSE <<0>> \o Zeros(k - 1)
RECURSIVE Int1024(_)
Int1024(ds) ==
  IF ds = <<>> THEN 0 ELSE Int1024(SubSeq(ds, 1, Len(ds) - 1)) * Base + ds[Len(ds)]

\* Line 901.
sizes == <<"B", "KB", "MB", "GB", "TB">>

\* int / int of line 906 raises OverflowError when the quotient, rounded to
\* a float, is 2^1024 or more: from 2^1034 - 2^980 on, which is 104 digits
\* with 15 and five times 1023 in front.
TrueDivOverflows(ds) ==
  \/ Len(ds) > 104
  \/ /\ Len(ds) = 104
     /\ \/ ds[1] >= 16
        \/ ds[1] = 15 /\ \A k \in 2..6 : ds[k] = 1023

\* Line 905: bytes_value >= 1024 and i < len(sizes) - 1.
Loops(whole, i) == Len(whole) >= 2 /\ i < Len(sizes) - 1

\* Lines 904-907: the value as the digits before and after the point, and the
\* number of divisions.
RECURSIVE Divided(_, _, _)
Divided(whole, frac, i) ==
  IF Loops(whole, i)
  THEN Divided(SubSeq(whole, 1, Len(whole) - 1), <<whole[Len(whole)]>> \o frac, i + 1)
  ELSE [whole |-> whole, frac |-> frac, i |-> i]

\* 100 times a fraction: the integer part is the carry out of the first digit.
RECURSIVE Times100(_)
Times100(frac) ==
  IF frac = <<>> THEN [carry |-> 0, frac |-> <<>>]
  ELSE LET rest == Times100(Tail(frac))
           t == frac[1] * 100 + rest.carry
       IN [carry |-> t \div Base, frac |-> <<t % Base>> \o rest.frac]

\* The fraction against one half: -1 below, 0 equal, 1 above.
HalfCmp(frac) ==
  IF frac = <<>> \/ frac[1] < Base \div 2 THEN -1
  ELSE IF frac[1] > Base \div 2 THEN 1
  ELSE IF \E k \in 2..Len(frac) : frac[k] # 0 THEN 1
  ELSE 0

RECURSIVE Incr(_)
Incr(ds) ==
  IF ds = <<>> THEN <<1>>
  ELSE IF ds[Len(ds)] + 1 < Base THEN [ds EXCEPT ![Len(ds)] = @ + 1]
  ELSE Append(Incr(SubSeq(ds, 1, Len(ds) - 1)), 0)

\* The ".2f" of line 908: the value rounded to hundredths, a tie to the even
\* hundredth.
Rounded(whole, frac) ==
  LET m == Times100(frac)
      up == \/ HalfCmp(m.frac) = 1
            \/ HalfCmp(m.frac) = 0 /\ m.carry % 2 = 1
      c == IF up THEN m.carry + 1 ELSE m.carry
  IN IF c = 100 THEN [whole |-> Incr(whole), cents |-> 0]
     ELSE [whole |-> whole, cents |-> c]

\* Lines 899-908. The result is the number before the point (in base 1024),
\* the hundredths (none for "0 B") and the unit.
bytes_to_readable(bytes_value) ==
  IF bytes_value = <<0>>
  THEN [raised |-> "", whole |-> <<0>>, cents |-> <<>>, unit |-> "B"]
  ELSE IF Loops(bytes_value, 0) /\ TrueDivOverflows(bytes_value)
  THEN [raised |-> "OverflowError", whole |-> <<>>, cents |-> <<>>, unit |-> ""]
  ELSE LET v == Divided(bytes_value, <<>>, 0)
           r == Rounded(v.whole, v.frac)
       IN [raised |-> "", whole |-> r.whole, cents |-> <<r.cents>>,
           unit |-> sizes[v.i + 1]]

\* The string of line 908 (or of line 903) for a result whose number before
\* the point is below 1024^3.
Text(r) ==
  IF r.cents = <<>> THEN ToString(Int1024(r.whole)) \o " " \o r.unit
  ELSE ToString(Int1024(r.whole)) \o "."
         \o (IF r.cents[1] < 10 THEN "0" ELSE "") \o ToString(r.cents[1])
         \o " " \o r.unit

\* The byte counts given: small ones, up to MaxDigits digits followed by
\* zeros, and the two counts around the largest one a float can divide.
SmallCounts ==
  {0, 1, 512, 1023, 1024, 1029, 1030, 1152, 1536, 1048570, 1048571, 1048575,
   1073741824}
DigitSet == {0, 1, 15, 16, 512, 1023}
Heads ==
  UNION {{h \in [1..n -> DigitSet] : h[1] # 0} : n \in 1..MaxDigits}
Tails == (0..5) \cup (98..103)
Largest == <<15, 1023, 1023, 1023, 1023, 1022>> \o Zeros(98)
ByteCounts ==
  {Nat1024(n) : n \in SmallCounts}
    \cup {h \o Zeros(k) : h \in Heads, k \in Tails}
    \cup {Largest, [Largest EXCEPT ![6] = 1023]}

InitSize ==
  /\ InitSelf
  /\ input \in ByteCounts
  /\ hashOrder = <<>>

\* self._bytes_to_readable(bytes_value) on the count given.
bytes_to_readable_call ==
  \E r \in {bytes_to_readable(input)} :
  /\ last' = [op |-> "_bytes_to_readable", arg |-> input,
              result |-> [whole |-> r.whole, cents |-> r.cents, unit |-> r.unit],
              raised |-> r.raised]
  /\ UNCHANGED <<input, hashOrder, objs, files, folders, folder_map,
                 children_map, root_folders, orphan_folders, file_types,
                 largest_files, potential_duplicates, exact_duplicates,
                 old_files, unused_files, categories, loaded, outputs, loads,
                 calls, scan>>

NextSize == bytes_to_readable_call

SpecSize == InitSize /\ [][NextSize]_vars

\* ------------------------------------------------------------------ claims
IdsOf(refs) == [k \in 1..Len(refs) |-> Deref(Self, refs[k]).id]
FolderOf(id) == Deref(Self, folder_map[id])
Reverse(seq) == [k \in 1..Len(seq) |-> seq[Len(seq) + 1 - k]]
PathCalled == last.op = "get_folder_path"

\* C1: get_folder_path of any id, on any parent graph (cycles, self-parents,
\* dangling parents, several parents), returns a path and raises nothing.
C1_PathTerminates ==
  PathCalled => /\ last.raised = ""
                /\ Len(last.result) >= 1
\* get_folder_path has run into a cycle of a folder with two parents.
C1_Witness ==
  /\ PathCalled
  /\ last.arg \in DOMAIN folder_map
  /\ Len(FolderOf(last.arg).parents) = 2
  /\ last.result[1] = CYCLIC

\* C2: the traversal of analyze_structure (and of create_visualization) ends
\* without exhausting the stack, also when the children index holds a cycle
\* below a root.
C2_TreeTerminates ==
  last.op \in {"analyze_structure", "create_visualization"}
    => last.raised # "RecursionError"

\* C3: after one load_data every known folder id is in at most one of
\* root_folders and orphan_folders, at most once, and the two lists hold
\* known folders only.
C3_OneClass ==
  loads.tried = 1 =>
    /\ \A id \in DOMAIN folder_map :
         Count(IdsOf(root_folders), id) + Count(IdsOf(orphan_folders), id) <= 1
    /\ Range(IdsOf(root_folders)) \cup Range(IdsOf(orphan_folders))
         \subseteq DOMAIN folder_map
\* One load has classified a root, an orphan and a normal folder.
C3_Witness ==
  /\ loads.tried = 1
  /\ root_folders # <<>>
  /\ orphan_folders # <<>>
  /\ \E id \in DOMAIN folder_map :
       id \notin Range(IdsOf(root_folders)) \cup Range(IdsOf(orphan_folders))

\* C4 as stated: a folder is an orphan iff it has parents and the FIRST one
\* is no known folder.
C4_OrphanIffFirstParentUnknown ==
  loaded => \A id \in DOMAIN folder_map :
    id \in Range(IdsOf(orphan_folders))
      <=> /\ FolderOf(id).parents # <<>>
          /\ FolderOf(id).parents[1] \notin DOMAIN folder_map
\* C4 amended: a folder is an orphan iff it has parents and NONE of them is a
\* known folder.
C4_OrphanIffNoParentKnown ==
  loaded => \A id \in DOMAIN folder_map :
    id \in Range(IdsOf(orphan_folders))
      <=> /\ FolderOf(id).parents # <<>>
          /\ \A k \in 1..Len(FolderOf(id).parents) :
               FolderOf(id).parents[k] \notin DOMAIN folder_map
\* A folder with an unknown first parent and a known second one was classified,
\* and is no orphan.
C4_Witness ==
  /\ loaded
  /\ \E id \in DOMAIN folder_map :
       /\ Len(FolderOf(id).parents) = 2
       /\ FolderOf(id).parents[1] \notin DOMAIN folder_map
       /\ FolderOf(id).parents[2] \in DOMAIN folder_map
       /\ id \notin Range(IdsOf(orphan_folders))

\* x and y are folders and each is the first parent of the other.
TwoCycle(x, y) ==
  /\ x # y
  /\ {x, y} \subseteq DOMAIN folder_map
  /\ FolderOf(x).parents # <<>> /\ FolderOf(x).parents[1] = y
  /\ FolderOf(y).parents # <<>> /\ FolderOf(y).parents[1] = x

\* C5 as stated: on a two-folder cycle get_folder_path returns the
\* cyclic-reference sentinel.
C5_CycleReturnsSentinel ==
  \A x, y \in DOMAIN folder_map :
    (PathCalled /\ last.arg = x /\ TwoCycle(x, y)) => last.result = <<CYCLIC>>
\* C5 amended: it returns the sentinel followed by the names of the other
\* folder and of the folder asked for.
C5_CycleReturnsSentinelThenNames ==
  \A x, y \in DOMAIN folder_map :
    (PathCalled /\ last.arg = x /\ TwoCycle(x, y))
      => /\ last.raised = ""
         /\ last.result = <<CYCLIC, FolderOf(y).name, FolderOf(x).name>>
\* get_folder_path was called on a folder of a two-folder cycle.
C5_Witness ==
  \E x, y \in DOMAIN folder_map : PathCalled /\ last.arg = x /\ TwoCycle(x, y)

RECURSIVE FirstParentChain(_, _)
\* The ids met from id on along first parents, up to and including the first
\* id that is no known folder, has no parents, or was met before.
FirstParentChain(id, seen) ==
  IF id \in seen \/ id \notin DOMAIN folder_map THEN <<id>>
  ELSE IF FolderOf(id).parents = <<>> THEN <<id>>
  ELSE <<id>> \o FirstParentChain(FolderOf(id).parents[1], seen \cup {id})

\* C6: an id that is no known folder resolves to the unknown sentinel, and a
\* folder whose first-parent chain ends in such an id resolves to the sentinel
\* followed by the names of the chain, outermost first; nothing is raised.
C6_UnknownSentinel ==
  PathCalled =>
    LET chain == FirstParentChain(last.arg, {})
        n == Len(chain)
    IN (chain[n] \notin DOMAIN folder_map /\ Cardinality(Range(chain)) = n)
         => /\ last.raised = ""
            /\ last.result =
                 <<UNKNOWN>> \o Reverse([k \in 1..(n - 1) |-> FolderOf(chain[k]).name])
\* get_folder_path went from a folder over its first parent to an unknown id.
C6_Witness ==
  /\ PathCalled
  /\ Len(last.result) = 3
  /\ last.result[1] = UNKNOWN
  /\ Len(FirstParentChain(last.arg, {})) = 3

\* The instance with every parents list cut to its first id.
FirstParentsOnly ==
  [Self EXCEPT !.objs =
     [g \in DOMAIN objs |->
        [i \in DOMAIN objs[g] |->
           [objs[g][i] EXCEPT !.parents = IF @ = <<>> THEN <<>> ELSE <<@[1]>>]]]]

\* C7: after one load every entry is in the bucket of a parent id as many
\* times as that id is listed in its parents (so in none when it has none),
\* every bucket is in input order, and the path of a folder is the path it
\* would have with its first parent alone.
C7_AllParentsIndexedFirstParentPath ==
  (loaded /\ loads.tried = 1) =>
    /\ \A i \in 1..Len(objs[files]) : \A p \in ParentIds \cup DOMAIN children_map :
         Count(IF p \in DOMAIN children_map THEN children_map[p] ELSE <<>>,
               Ref(files, i))
           = Count(objs[files][i].parents, p)
    /\ \A p \in DOMAIN children_map : \A k \in 1..(Len(children_map[p]) - 1) :
         children_map[p][k].i <= children_map[p][k + 1].i
    /\ PathCalled =>
         last.result = get_folder_path(FirstParentsOnly, last.arg, {}, 1).path
\* The path of a folder listed under two different known parents was resolved.
C7_Witness ==
  /\ loaded /\ loads.tried = 1 /\ PathCalled
  /\ last.arg \in DOMAIN folder_map
  /\ LET f == FolderOf(last.arg) IN
       /\ Len(f.parents) = 2
       /\ f.parents[1] # f.parents[2]
       /\ {f.parents[1], f.parents[2]} \subseteq DOMAIN folder_map
       /\ folder_map[last.arg] \in Range(children_map[f.parents[1]])
       /\ folder_map[last.arg] \in Range(children_map[f.parents[2]])
       /\ get_folder_path(Self, f.parents[1], {}, 1).path
            # get_folder_path(Self, f.parents[2], {}, 1).path

\* The value under 'size' of entry e is there and int() cannot convert it.
Unparseable(e) == HasSize(e) /\ PyInt(e.size).exc # ""
\* The passes that read sizes.
SizePasses ==
  {"find_exact_duplicates", "find_old_files", "find_unused_files",
   "generate_statistics"}
\* The sizes of the snapshot, an unparseable one counted as 0.
SizeOrZero(e) == IF HasSize(e) /\ ~Unparseable(e) THEN PyInt(e.size).v ELSE 0

\* C8: on a snapshot that is well-typed but for sizes that are no integers,
\* load_data succeeds, no pass that reads sizes raises, and the total size of
\* generate_statistics counts such a size as 0.
C8_UnparseableSizeIsZero ==
  (/\ input.ok
   /\ \A i \in 1..Len(input.entries) : input.entries[i].id # NoId
   /\ \E i \in 1..Len(input.entries) : Unparseable(input.entries[i]))
    => /\ loads.failed = 0
       /\ last.op \in SizePasses => last.raised = ""
       /\ "STATS_OUTPUT" \in DOMAIN outputs =>
            outputs["STATS_OUTPUT"].total_size_bytes
              = SumSeq([i \in 1..Len(input.entries) |->
                          SizeOrZero(input.entries[i])])

\* C9: after a failed load no report has been written and load_data has run
\* once only.
C9_FailedLoadRejectsOnce ==
  loads.failed > 0 => /\ outputs = EmptyDict
                      /\ loads.tried = 1

\* The passes C10 names.
FramePasses ==
  {"analyze_structure", "find_potential_duplicates", "find_exact_duplicates",
   "find_old_files", "find_unused_files", "categorize_files",
   "generate_statistics", "generate_suggestions", "create_visualization"}

\* C10: a pass called on a loaded instance leaves folder_map, children_map
\* (keys and buckets), root_folders and orphan_folders as they were.
C10_PassesKeepIndices ==
  [][(loaded /\ last'.op \in FramePasses)
       => /\ folder_map' = folder_map
          /\ children_map' = children_map
          /\ root_folders' = root_folders
          /\ orphan_folders' = orphan_folders]_vars

\* The ids of the entries a list of references names.
IdsIn(s, refs) == [k \in 1..Len(refs) |-> Deref(s, refs[k]).id]
\* The result lists of the instance s with ids for references.
ResultLists(s) ==
  [potential |-> [k \in 1..Len(s.potential_duplicates) |->
                    [name |-> s.potential_duplicates[k].name,
                     count |-> s.potential_duplicates[k].count,
                     files |-> IdsIn(s, s.potential_duplicates[k].files)]],
   exact |-> [k \in 1..Len(s.exact_duplicates) |->
                [name |-> s.exact_duplicates[k].name,
                 size |-> s.exact_duplicates[k].size,
                 count |-> s.exact_duplicates[k].count,
                 files |-> IdsIn(s, s.exact_duplicates[k].files)]],
   categories |-> [c \in DOMAIN s.categories |-> IdsIn(s, s.categories[c])],
   old |-> s.old_files,
   unused |-> s.unused_files]

\* C11: a second analyze_all on the same instance, right after a first one
\* that completed, leaves the statistics report and the potential-duplicate,
\* exact-duplicate, category, old-file and unused-file lists as the first run
\* made them.
C11_SecondRunSameResults ==
  [][(/\ last.op = "analyze_all" /\ last.raised = ""
      /\ "STATS_OUTPUT" \in DOMAIN outputs
      /\ last'.op = "analyze_all")
       => /\ last'.raised = ""
          /\ outputs'["STATS_OUTPUT"] = outputs["STATS_OUTPUT"]
          /\ ResultLists(Self)' = ResultLists(Self)]_vars

\* The entries self.files lists, and those of them a duplicate pass looks at.
Loaded1 == objs[files]
IsFile(i) == ~IsFolder(Loaded1[i])
Sized(i) == IsFile(i) /\ HasSize(Loaded1[i])
SizeAt(i) == PyInt(Loaded1[i].size).v
\* Entries i and j are files with a size and agree in name and in size.
SamePair(i, j) ==
  /\ Sized(i) /\ Sized(j)
  /\ Loaded1[i].name = Loaded1[j].name
  /\ SizeAt(i) = SizeAt(j)
\* The indices in self.files of a list of references to them.
IndexOf(refs) == [k \in 1..Len(refs) |-> refs[k].i]
ExactRan == "EXACT_DUPES_OUTPUT" \in DOMAIN outputs

\* C12: the groups of find_exact_duplicates are the (name, size) pairs that at
\* least 2 files with a size share; a group holds exactly the files of its
\* pair, so no file of another size or without size and no folder; the groups
\* are in descending order of size; and the reclaimable space the
\* suggestions report is the sum of size * (count - 1) over the groups, that
\* is the size of every file that repeats the pair of an earlier file.
C12_ExactGroupsByNameAndSize ==
  (loaded /\ ExactRan) =>
    /\ \A k \in 1..Len(exact_duplicates) :
         LET grp == exact_duplicates[k] IN
         /\ grp.count = Len(grp.files) /\ grp.count >= 2
         /\ \A r \in Range(grp.files) : r.g = files
         /\ Range(IndexOf(grp.files))
              = {i \in 1..Len(Loaded1) :
                   /\ Sized(i)
                   /\ Loaded1[i].name = grp.name
                   /\ SizeAt(i) = grp.size}
         /\ \A j \in 1..(grp.count - 1) : grp.files[j].i < grp.files[j + 1].i
    /\ \A i, j \in 1..Len(Loaded1) :
         (i # j /\ SamePair(i, j)) =>
           Cardinality({k \in 1..Len(exact_duplicates) :
                          Ref(files, i) \in Range(exact_duplicates[k].files)}) = 1
    /\ \A k \in 1..(Len(exact_duplicates) - 1) :
         exact_duplicates[k].size >= exact_duplicates[k + 1].size
    /\ last.op = "generate_suggestions" =>
         outputs["SUGGESTIONS_OUTPUT"].dupes_size
           = SumSeq([i \in 1..Len(Loaded1) |->
                       IF \E j \in 1..(i - 1) : SamePair(i, j)
                       THEN SizeAt(i) ELSE 0])
\* Two a.txt of 100 bytes are a group with 100 bytes to reclaim, a third a.txt
\* of 200 bytes and a folder a.txt of 100 bytes are not in it, and a larger
\* group stands before it.
C12_Witness ==
  /\ loaded /\ ExactRan /\ last.op = "generate_suggestions"
  /\ Len(exact_duplicates) = 2
  /\ exact_duplicates[1].name = "b.txt" /\ exact_duplicates[1].size = 200
  /\ exact_duplicates[2].name = "a.txt" /\ exact_duplicates[2].size = 100
  /\ exact_duplicates[2].count = 2
  /\ \E i \in 1..Len(Loaded1) :
       IsFile(i) /\ Loaded1[i].name = "a.txt" /\ Sized(i) /\ SizeAt(i) = 200
  /\ \E i \in 1..Len(Loaded1) :
       IsFile(i) /\ Loaded1[i].name = "a.txt" /\ ~Sized(i)
  /\ outputs["SUGGESTIONS_OUTPUT"].dupes_size = 300

PotentialRan == "DUPLICATE_OUTPUT" \in DOMAIN outputs
\* The ids of the files named nm, in input order.
FilesNamed(nm) ==
  LET hit == SelectSeq(Indices(Loaded1),
                       LAMBDA i : IsFile(i) /\ Loaded1[i].name = nm)
  IN [k \in 1..Len(hit) |-> Loaded1[hit[k]].id]

\* C13: the groups find_potential_duplicates reports are the names that at
\* least 2 files bear, once each; a group holds every file of its name, of
\* whatever size, in input order, and no folder; the groups are in descending
\* order of member count.
C13_PotentialGroupsByName ==
  (loaded /\ PotentialRan) =>
    LET rows == outputs["DUPLICATE_OUTPUT"] IN
    /\ {rows[k].name : k \in 1..Len(rows)}
         = {Loaded1[i].name : i \in {j \in 1..Len(Loaded1) :
                                       IsFile(j) /\ Len(FilesNamed(Loaded1[j].name)) >= 2}}
    /\ \A k, l \in 1..Len(rows) : rows[k].name = rows[l].name => k = l
    /\ \A k \in 1..Len(rows) :
         /\ rows[k].ids = FilesNamed(rows[k].name)
         /\ rows[k].count = Len(rows[k].ids)
    /\ \A k \in 1..(Len(rows) - 1) : rows[k].count >= rows[k + 1].count
    /\ Len(potential_duplicates) = Len(rows)
    /\ \A k \in 1..Len(rows) :
         /\ potential_duplicates[k].name = rows[k].name
         /\ potential_duplicates[k].count = rows[k].count
         /\ IdsOf(potential_duplicates[k].files) = rows[k].ids
\* The larger group b.txt is reported before the group a.txt, which holds
\* files of different sizes and not the folder named a.txt.
C13_Witness ==
  /\ loaded /\ PotentialRan /\ last.op = "find_potential_duplicates"
  /\ Len(potential_duplicates) = 2
  /\ potential_duplicates[1].name = "b.txt"
  /\ potential_duplicates[1].count = 4
  /\ potential_duplicates[2].name = "a.txt"
  /\ IdsOf(potential_duplicates[2].files) = <<"F0", "N">>
  /\ \E i \in 1..Len(Loaded1) :
       IsFolder(Loaded1[i]) /\ Loaded1[i].name = "a.txt"

\* A pattern of category c matches the name or the MIME type of entry e.
Matches(c, e) == e.name \in NamesMatching(c) \/ e.mimeType \in MimesMatching(c)
CategorizeRan == "CATEGORIES_OUTPUT" \in DOMAIN outputs
\* The categories whose list holds file i, once per occurrence.
ListsHolding(i) ==
  {<<c, k>> \in (DOMAIN categories) \X (1..Len(Loaded1)) :
     k <= Len(categories[c]) /\ categories[c][k] = Ref(files, i)}

\* C14: categorize_files puts every file in exactly one category list, once:
\* that of the first category, in the declared order, with a pattern matching
\* its name or its MIME type, or "Other" when there is none; no folder is in
\* any list.
C14_FirstMatchingCategory ==
  (loaded /\ CategorizeRan) =>
    /\ \A i \in 1..Len(Loaded1) :
         IF IsFolder(Loaded1[i]) THEN ListsHolding(i) = {}
         ELSE /\ Cardinality(ListsHolding(i)) = 1
              /\ \A h \in ListsHolding(i) :
                   LET first == {k \in 1..Len(CategoryOrder) :
                                   /\ Matches(CategoryOrder[k], Loaded1[i])
                                   /\ \A j \in 1..(k - 1) :
                                        ~Matches(CategoryOrder[j], Loaded1[i])}
                   IN IF first = {} THEN h[1] = "Other"
                      ELSE \E k \in first : h[1] = CategoryOrder[k]
    /\ \A c \in DOMAIN categories : \A r \in Range(categories[c]) : r.g = files
\* photo.jpg without MIME type is in Photos, beside a backup.zip of type
\* audio/mpeg in Audio; the folder named photo.jpg is in no list.
C14_Witness ==
  /\ loaded /\ CategorizeRan /\ last.op = "categorize_files"
  /\ DOMAIN categories = {"Photos", "Audio"}
  /\ \E r \in Range(categories["Photos"]) :
       Deref(Self, r).name = "photo.jpg" /\ Deref(Self, r).mimeType = NoMime
  /\ \E r \in Range(categories["Audio"]) :
       Deref(Self, r).name = "backup.zip" /\ Deref(Self, r).mimeType = "audio/mpeg"

UnusedRan == "UNUSED_FILES_OUTPUT" \in DOMAIN outputs
\* The factors of the unused-file score of entry e, as 0 or 1 each.
AgeBand(e) ==
  IF e.createdTime = <<>> THEN 0
  ELSE IF e.createdTime[1] \div 2 > 1095 THEN 2
  ELSE IF e.createdTime[1] \div 2 > 730 THEN 1
  ELSE 0
IsDeep(e) ==
  /\ e.parents # <<>>
  /\ Len(get_folder_path(Self, e.parents[1], {}, 1).path) > 7
HasPattern(e) == BackupPatternsIn(e.name) # {}
ExpectedScore(e) ==
  AgeBand(e) + (IF IsDeep(e) THEN 1 ELSE 0) + (IF HasPattern(e) THEN 2 ELSE 0)
ExpectedReasons(e) ==
  (IF AgeBand(e) > 0 THEN 1 ELSE 0) + (IF IsDeep(e) THEN 1 ELSE 0)
    + (IF HasPattern(e) THEN 1 ELSE 0)
\* The file of self.files with the id of a result record.
FileOf(x) ==
  Loaded1[CHOOSE i \in 1..Len(Loaded1) : IsFile(i) /\ Loaded1[i].id = x.id]

\* C15: the score find_unused_files gives a file is its age band (2 above
\* 1095 days, else 1 above 730 days, else 0, and 0 without createdTime) plus
\* 1 when the path of its first parent has more than 7 separators plus 2 when
\* a backup/temp pattern matches its name, however many do; it has one reason
\* per factor, and no score is above 5.
C15_UnusedScore ==
  (loaded /\ UnusedRan) =>
    \A k \in 1..Len(unused_files) :
      /\ unused_files[k].score = ExpectedScore(FileOf(unused_files[k]))
      /\ Len(unused_files[k].reasons) = ExpectedReasons(FileOf(unused_files[k]))
      /\ unused_files[k].score <= 5
\* A backup file of 1096 days below 8 folders scores 5 with three reasons,
\* and a file of 731 days whose name three patterns match scores 3 with two.
C15_Witness ==
  /\ loaded /\ UnusedRan /\ last.op = "find_unused_files"
  /\ \E k \in 1..Len(unused_files) :
       /\ unused_files[k].score = 5
       /\ Len(unused_files[k].reasons) = 3
       /\ Len(unused_files[k].path) = 8
       /\ FileOf(unused_files[k]).createdTime = <<2192>>
  /\ \E k \in 1..Len(unused_files) :
       /\ unused_files[k].score = 3
       /\ Len(unused_files[k].reasons) = 2
       /\ Cardinality(BackupPatternsIn(unused_files[k].name)) = 3
       /\ FileOf(unused_files[k]).createdTime = <<1462>>

\* The position in self.files of the file a result record is about.
PlaceOf(x) == CHOOSE i \in 1..Len(Loaded1) : IsFile(i) /\ Loaded1[i].id = x.id
\* The files whose score reaches 3.
Scoring3 == {i \in 1..Len(Loaded1) : IsFile(i) /\ ExpectedScore(Loaded1[i]) >= 3}

\* C16: unused_files holds exactly the files whose score is 3 or more, each
\* once, by descending score and in input order among equal scores, and each
\* record carries the id, name, path, score and reasons of its file.
C16_UnusedList ==
  (loaded /\ UnusedRan) =>
    /\ Len(unused_files) = Cardinality(Scoring3)
    /\ {PlaceOf(unused_files[k]) : k \in 1..Len(unused_files)} = Scoring3
    /\ \A k \in 1..Len(unused_files) :
         /\ {"id", "name", "path", "score", "reasons"}
              \subseteq DOMAIN unused_files[k]
         /\ unused_files[k].name = FileOf(unused_files[k]).name
         /\ unused_files[k].path = FilePath(Self, Ref(files, PlaceOf(unused_files[k])))
         /\ unused_files[k].score >= 3
         /\ Len(unused_files[k].reasons) \in 1..3
    /\ \A k, l \in 1..Len(unused_files) :
         k < l =>
           \/ unused_files[k].score > unused_files[l].score
           \/ /\ unused_files[k].score = unused_files[l].score
              /\ PlaceOf(unused_files[k]) < PlaceOf(unused_files[l])
\* Two files of score 4 stay in input order.
C16_TieKeepsInputOrder ==
  /\ loaded /\ UnusedRan /\ last.op = "find_unused_files"
  /\ Len(unused_files) = 2
  /\ unused_files[1].id = "F1" /\ unused_files[2].id = "F2"
  /\ unused_files[1].score = 4 /\ unused_files[2].score = 4
\* The second file scores 5, the first 3: the second is listed first.
C16_Witness ==
  /\ loaded /\ UnusedRan /\ last.op = "find_unused_files"
  /\ Len(unused_files) = 2
  /\ unused_files[1].id = "F2" /\ unused_files[2].id = "F1"
  /\ unused_files[1].score = 5 /\ unused_files[2].score = 3
OldRan == last.op = "find_old_files" /\ last.raised = ""
\* The files created more than last.arg days ago, in half days.
Before(days) ==
  {i \in 1..Len(Loaded1) :
     /\ IsFile(i) /\ Loaded1[i].createdTime # <<>>
     /\ Loaded1[i].createdTime[1] > 2 * days}
OldPlace(x) == CHOOSE i \in 1..Len(Loaded1) : IsFile(i) /\ Loaded1[i].id = x.id

\* C17: find_old_files(days_threshold) reports exactly the files whose
\* createdTime lies before now minus days_threshold days, each once, so no
\* file without createdTime and no folder; every reported age_days is at
\* least days_threshold; and the list is in descending order of age_days.
C17_OldFiles ==
  (loaded /\ OldRan) =>
    /\ Len(old_files) = Cardinality(Before(last.arg))
    /\ {OldPlace(old_files[k]) : k \in 1..Len(old_files)} = Before(last.arg)
    /\ \A k \in 1..Len(old_files) :
         /\ Loaded1[OldPlace(old_files[k])].createdTime # <<>>
         /\ old_files[k].age_days >= last.arg
         /\ old_files[k].age_days = Loaded1[OldPlace(old_files[k])].createdTime[1] \div 2
    /\ \A k, l \in 1..Len(old_files) :
         k < l => old_files[k].age_days >= old_files[l].age_days
\* With the default threshold the second file, older than the first, is
\* listed first; the first is half a day beyond the threshold and has age_days
\* 365; and the folder created 1100 days ago is not listed.
C17_Witness ==
  /\ loaded /\ OldRan /\ last.arg = 365
  /\ Len(old_files) = 2
  /\ old_files[1].id = "F2" /\ old_files[2].id = "F1"
  /\ old_files[1].age_days = 1096 /\ old_files[2].age_days = 365
  /\ \E i \in 1..Len(Loaded1) :
       ~IsFile(i) /\ Loaded1[i].createdTime = <<2201>>
\* A file without createdTime and a file created exactly 365 days ago are
\* not reported for the threshold of 365 days.
C17_AbsentAndExactStayOut ==
  /\ loaded /\ OldRan /\ last.arg = 365
  /\ old_files = <<>>
  /\ \E i, j \in 1..Len(Loaded1) :
       /\ IsFile(i) /\ Loaded1[i].createdTime = <<>>
       /\ IsFile(j) /\ Loaded1[j].createdTime = <<730>>
ReadableRan == last.op = "_bytes_to_readable"
\* What the result of a call on a count other than 0 is to be: the unit of
\* index min(4, number of divisions by 1024 that bring the count below 1024),
\* and a value with two decimals.
ReadableAsClaimed ==
  LET divisions == Len(last.arg) - 1
      index == IF divisions < 4 THEN divisions ELSE 4
  IN /\ last.result.unit = sizes[index + 1]
     /\ Len(last.result.cents) = 1
     /\ last.result.cents[1] \in 0..99
     /\ Len(last.arg) >= 6 => last.result.unit = "TB"
     /\ last.arg = Nat1024(1536) => Text(last.result) = "1.50 KB"
     /\ last.arg = Nat1024(1073741824) => Text(last.result) = "1.00 GB"

\* C18: for every non-negative byte count _bytes_to_readable returns a
\* string: "0 B" for 0, and otherwise the count divided by 1024 while it is
\* 1024 or more and the unit is below TB, with the unit B, KB, MB, GB or TB
\* of that many divisions (TB also from 1024^5 on), printed with two decimals.
C18_ReadableForEveryCount ==
  ReadableRan =>
    /\ last.raised = ""
    /\ IF last.arg = <<0>> THEN Text(last.result) = "0 B" ELSE ReadableAsClaimed
\* The same for the counts below 2^1034 - 2^980.
C18_ReadableBelowOverflow ==
  (ReadableRan /\ ~TrueDivOverflows(last.arg)) =>
    /\ last.raised = ""
    /\ IF last.arg = <<0>> THEN Text(last.result) = "0 B" ELSE ReadableAsClaimed
StructureRan == last.op = "analyze_structure"
\* The lines of the tree in the structure file.
TreeOut ==
  SelectSeq(outputs["STRUCTURE_OUTPUT"], LAMBDA x : x.section = "roots")
\* The lines of the subtree below line k, and those of its children.
Below(k) ==
  {l \in k + 1..Len(TreeOut) :
     \A j \in k + 1..l : TreeOut[j].indent > TreeOut[k].indent}
KidLines(k) == {l \in Below(k) : TreeOut[l].indent = TreeOut[k].indent + 2}
TopLines == {k \in 1..Len(TreeOut) : TreeOut[k].indent = 0}
\* The lines at the places S, in the order written.
LinesAt(S) == SelectSeq([k \in 1..Len(TreeOut) |-> k], LAMBDA k : k \in S)
\* The folders among the children of a folder.
FolderKids(id) ==
  IF id \in DOMAIN children_map
  THEN IdsOf(SelectSeq(children_map[id], LAMBDA r : IsFolderRef(Self, r)))
  ELSE <<>>
\* The lines at the places S are the folders ids, each as often as it is in
\* ids, in ascending order of name.
ListsByName(S, ids) ==
  LET at == LinesAt(S)
  IN /\ Len(at) = Len(ids)
     /\ \A id \in DOMAIN folder_map :
          Count([k \in 1..Len(at) |-> TreeOut[at[k]].id], id) = Count(ids, id)
     /\ \A k \in 1..Len(at) - 1 :
          NameRank(TreeOut[at[k]].name) <= NameRank(TreeOut[at[k + 1]].name)
TreeAsClaimed ==
  /\ \A k \in 1..Len(TreeOut) :
       /\ TreeOut[k].id \in DOMAIN folder_map
       /\ TreeOut[k].name = FolderOf(TreeOut[k].id).name
       /\ TreeOut[k].indent % 2 = 0
       /\ TreeOut[k].indent <= (IF k = 1 THEN 0 ELSE TreeOut[k - 1].indent + 2)
       /\ ListsByName(KidLines(k), FolderKids(TreeOut[k].id))
  /\ ListsByName(TopLines, IdsOf(root_folders))

\* C19: the tree analyze_structure writes lists the root folders in ascending
\* order of name without indent; the line of a folder is followed at once by
\* the subtrees of the folders among its children, in ascending order of
\* name and 2 spaces deeper; every line shows the name and the id of a known
\* folder, and no file has a line.
C19_TreeIsPreOrder == StructureRan => TreeAsClaimed
\* The same for the runs that raise nothing.
C19_CompletedTreeIsPreOrder ==
  (StructureRan /\ last.raised = "") => TreeAsClaimed
\* C20 as stated: the deepest frame of a get_folder_path call is at most the
\* number of known folders.
C20_DepthAtMostFolders ==
  PathCalled => last.depth <= Cardinality(DOMAIN folder_map)
\* C20: for every snapshot and every starting id, the number of nested
\* get_folder_path frames is at most the number of known folders plus one:
\* every known folder is passed at most once, and one more call returns the
\* sentinel of an unknown or revisited id.
C20_DepthAtMostFoldersPlusOne ==
  PathCalled => last.depth <= Cardinality(DOMAIN folder_map) + 1
\* The path from A runs through the three folders and ends at an unknown
\* id, in the fourth frame.
C20_Witness ==
  /\ PathCalled
  /\ Cardinality(DOMAIN folder_map) = 3
  /\ last.depth = 4
  /\ last.result[1] = UNKNOWN
\* A cycle through two folders is found in the third frame.
C20_CycleCostsOneFrame ==
  /\ PathCalled
  /\ last.result = <<CYCLIC, FolderOf("B").name, FolderOf("A").name>>
  /\ last.depth = 3

\* How often the entry at place i of self.files is named by a list of
\* references (of this load or of an earlier one).
TimesIn(refs, i) == Cardinality({k \in 1..Len(refs) : refs[k].i = i})
ChildrenOf(p) == IF p \in DOMAIN children_map THEN children_map[p] ELSE <<>>
TypeCount(mt) == IF mt \in DOMAIN file_types THEN file_types[mt] ELSE 0

\* C21: whatever public methods were called on the instance, once a load has
\* completed every entry is in children_map under p as often as p is in its
\* parents, every folder without parents is once in root_folders, and the count
\* of every MIME type is the number of files that bear it.
C21_IndicesMatchSnapshot ==
  loaded =>
    /\ \A i \in 1..Len(Loaded1) :
         /\ \A p \in DOMAIN children_map \cup Range(Loaded1[i].parents) :
              TimesIn(ChildrenOf(p), i) = Count(Loaded1[i].parents, p)
         /\ (IsFolder(Loaded1[i]) /\ Loaded1[i].parents = <<>>)
              => TimesIn(root_folders, i) = 1
    /\ \A mt \in DOMAIN file_types \cup {Loaded1[i].mimeType : i \in 1..Len(Loaded1)} :
         TypeCount(mt) =
           Cardinality({i \in 1..Len(Loaded1) :
                          IsFile(i) /\ Loaded1[i].mimeType = mt})
\* The same after the first load of an instance.
C21_FirstLoadMatchesSnapshot == loads.tried = 1 => C21_IndicesMatchSnapshot

\* The ids on the lines of the structure file, tree and orphan list together.
ListedIds ==
  {outputs["STRUCTURE_OUTPUT"][k].id :
     k \in 1..Len(outputs["STRUCTURE_OUTPUT"])}
\* The known folders, as entries of the loaded snapshot.
KnownFolders == {Deref(Self, folder_map[id]) : id \in DOMAIN folder_map}

\* C22: whenever analyze_structure completes, every known folder id is on at
\* least one line of the structure output, in the tree below some root or in
\* the orphan list; no folder is missing, neither a subfolder of an orphan nor
\* a member of a cycle that no root reaches.
C22_EveryFolderListed ==
  (StructureRan /\ last.raised = "") => DOMAIN folder_map \subseteq ListedIds

\* What the output does hold when the pass completes and no load has failed:
\* every folder without parents, every folder of orphan_folders, and with a
\* listed folder of the tree every folder that names it among its parents.
C22_RootsOrphansAndTreeListed ==
  (StructureRan /\ last.raised = "" /\ loads.failed = 0) =>
    \A e \in KnownFolders :
      /\ e.parents = <<>> => e.id \in ListedIds
      /\ e.id \in Range(IdsOf(orphan_folders)) => e.id \in ListedIds
      /\ (\E k \in 1..Len(TreeOut) : TreeOut[k].id \in Range(e.parents))
           => e.id \in {TreeOut[k].id : k \in 1..Len(TreeOut)}

PlanRan == last.op = "generate_reorganization_plan"
\* The folders the plan proposes, each with its file count.
PlanShown == outputs["REORG_PLAN_OUTPUT"].structure
\* The plan has a line for category c with the number of its members.
PlanLists(c) ==
  \E k \in 1..Len(PlanShown) :
    PlanShown[k] = [category |-> c, file_count |-> Len(categories[c])]

\* C23: generate_reorganization_plan lists every non-empty category that
\* categorize_files produced, with its member count, so the counts of the plan
\* sum to the number of non-folder entries; a non-empty Audio category is
\* listed like any other.
C23_PlanListsEveryCategory ==
  (PlanRan /\ last.raised = "") =>
    /\ \A c \in DOMAIN categories : Len(categories[c]) > 0 => PlanLists(c)
    /\ SumSeq([k \in 1..Len(PlanShown) |-> PlanShown[k].file_count])
         = Cardinality({i \in 1..Len(Loaded1) : IsFile(i)})

\* Every non-empty category but Audio is listed with its member count, each
\* once, and the counts fall short of the number of non-folder entries by the
\* members of Audio.
C23_PlanListsAllButAudio ==
  (PlanRan /\ last.raised = "") =>
    /\ \A c \in DOMAIN categories \ {"Audio"} :
         Len(categories[c]) > 0 => PlanLists(c)
    /\ \A k, l \in 1..Len(PlanShown) :
         PlanShown[k].category = PlanShown[l].category => k = l
    /\ SumSeq([k \in 1..Len(PlanShown) |-> PlanShown[k].file_count])
         + (IF "Audio" \in DOMAIN categories THEN Len(categories["Audio"]) ELSE 0)
         = Cardinality({i \in 1..Len(Loaded1) : IsFile(i)})

\* ------------------------------- drive_scanner_remote.list_all_files
\* The Drive is a sequence of pages, each a sequence of file entries; the
\* request without a token gets page 1 and the token <<k>> gets page k. The
\* model bounds the number of pages, the files of a page (pageSize=1000 in the
\* code) and the HttpErrors of status 429 of one run.
MaxPages == 3
MaxPageSize == 2
MaxRetries == 2

\* None and a page token.
NoToken == <<>>
PageOf(page_token) == IF page_token = NoToken THEN 1 ELSE page_token[1]

\* The n entries of page k, and the Drives of pages of any lengths.
PageFiles(k, n) == [j \in 1..n |-> [page |-> k, file |-> j]]
Drives ==
  UNION {{[k \in 1..n |-> PageFiles(k, len[k])] :
            len \in [1..n -> 0..MaxPageSize]} : n \in 1..MaxPages}

\* What service.files().list(pageToken=page_token).execute() returns when it
\* returns: the files of the page and the token of the next one, if any.
Execute(drive, page_token) ==
  [files |-> drive[PageOf(page_token)],
   nextPageToken |-> IF PageOf(page_token) < Len(drive)
                     THEN <<PageOf(page_token) + 1>> ELSE NoToken]

\* The statuses of the HttpErrors the model lets execute() raise.
Statuses == {403, 429, 500}

\* Lines 25-39: the response is taken in, and the loop ends with the last page.
Received(sc, response) ==
  [sc EXCEPT !.files = @ \o response.files,
             !.page_count = @ + 1,
             !.page_token = response.nextPageToken,
             !.pc = IF response.nextPageToken = NoToken THEN "write"
                    ELSE "request"]

Failed429Breaks(sc, status) ==
  IF status = 403 THEN [sc EXCEPT !.pc = "exit"]
  ELSE IF status = 429 THEN [sc EXCEPT !.pc = "write"]
  ELSE [sc EXCEPT !.pc = "exit"]
\* Lines 44-54: the HttpError of execute(). 403 ends the process, 429 sleeps
\* and goes round the loop again with files and page_token as they were, any
\* other status is raised again and ends the process at lines 56-58.
Failed(sc, status) ==
  IF status = 403 THEN [sc EXCEPT !.pc = "exit"]
  ELSE IF status = 429 THEN sc
  ELSE [sc EXCEPT !.pc = "exit"]

\* Lines 12-21 have run: files, page_token and page_count are set. `drive` is
\* the Drive of the run, `returned` the pages execute() has returned so far
\* and `limited` the number of 429s so far.
InitScan ==
  /\ scan \in {[pc |-> "request", files |-> <<>>, page_token |-> NoToken,
                page_count |-> 0, drive |-> d, returned |-> <<>>,
                limited |-> 0] : d \in Drives}
  /\ input = [ok |-> FALSE, entries |-> <<>>]
  /\ hashOrder = <<>>
  /\ objs = <<>>
  /\ files = 0
  /\ folders = <<>>
  /\ folder_map = EmptyDict
  /\ children_map = EmptyDict
  /\ root_folders = <<>>
  /\ orphan_folders = <<>>
  /\ file_types = EmptyDict
  /\ largest_files = <<>>
  /\ potential_duplicates = <<>>
  /\ exact_duplicates = <<>>
  /\ old_files = <<>>
  /\ unused_files = <<>>
  /\ categories = EmptyDict
  /\ loaded = FALSE
  /\ outputs = EmptyDict
  /\ last = [op |-> "list_all_files", arg |-> "", result |-> <<>>, raised |-> ""]
  /\ loads = [tried |-> 0, failed |-> 0]
  /\ calls = 0

\* The analyzer does not run during a scan.
ScanOnly ==
  UNCHANGED <<input, hashOrder, objs, files, folders, folder_map, children_map,
              root_folders, orphan_folders, file_types, largest_files,
              potential_duplicates, exact_duplicates, old_files, unused_files,
              categories, loaded, last, loads, calls>>

\* One round of the loop in which execute() returns.
ScanPage ==
  /\ scan.pc = "request"
  /\ \E response \in {Execute(scan.drive, scan.page_token)} :
       scan' = [Received(scan, response) EXCEPT
                  !.returned = Append(@, PageOf(scan.page_token))]
  /\ UNCHANGED outputs
  /\ ScanOnly

\* One round of the loop in which execute() raises an HttpError.
ScanError ==
  /\ scan.pc = "request"
  /\ \E status \in Statuses :
       /\ status = 429 => scan.limited < MaxRetries
       /\ scan' = [Failed(scan, status) EXCEPT
                     !.limited = IF status = 429 THEN @ + 1 ELSE @]
  /\ UNCHANGED outputs
  /\ ScanOnly

\* Lines 60-67: the list is written to OUTPUT_FILE, or the process ends when
\* the file cannot be written.
ScanWrite ==
  /\ scan.pc = "write"
  /\ \E ok \in BOOLEAN :
       IF ok
       THEN /\ outputs' = [x \in DOMAIN outputs \cup {"OUTPUT_FILE"} |->
                             IF x = "OUTPUT_FILE" THEN scan.files ELSE outputs[x]]
            /\ scan' = [scan EXCEPT !.pc = "done"]
       ELSE /\ scan' = [scan EXCEPT !.pc = "exit"]
            /\ UNCHANGED outputs
  /\ ScanOnly

NextScan == ScanPage \/ ScanError \/ ScanWrite

SpecScan == InitScan /\ [][NextScan]_vars

RECURSIVE Flatten(_)
\* The concatenation of the sequences of a sequence.
Flatten(ss) == IF ss = <<>> THEN <<>> ELSE ss[1] \o Flatten(Tail(ss))

\* C24: in list_all_files, whatever number of times a page request fails with
\* HTTP 429 before it succeeds, the accumulated file list is the concatenation
\* of the pages returned, in page order and each page once: a 429 asks for the
\* same page token again and adds no entries, and no page is skipped or
\* appended twice.
C24_PagesOnceInOrder ==
  scan.pc # "none" =>
    /\ scan.returned = [k \in 1..Len(scan.returned) |-> k]
    /\ scan.files = Flatten([k \in 1..Len(scan.returned) |->
                               scan.drive[scan.returned[k]]])
    /\ scan.pc = "request" => PageOf(scan.page_token) = Len(scan.returned) + 1
    /\ scan.pc \in {"write", "done"} => scan.files = Flatten(scan.drive)
    /\ scan.pc = "done" => outputs["OUTPUT_FILE"] = Flatten(scan.drive)

\* A scan of three pages, the second one empty, that met two 429s and wrote
\* the three files of the Drive.
C24_Witness ==
  /\ scan.pc = "done"
  /\ scan.limited = 2
  /\ Len(scan.drive) = 3
  /\ outputs["OUTPUT_FILE"] = <<[page |-> 1, file |-> 1], [page |-> 1, file |-> 2],
                                [page |-> 3, file |-> 1]>>

\* The reclaimable space the suggestions and the plan report, where they have
\* been written, and the total the statistics report.
SavingsReported ==
  {outputs[f].dupes_size : f \in {"SUGGESTIONS_OUTPUT"} \cap DOMAIN outputs}
    \cup {outputs[f].saving : f \in {"REORG_PLAN_OUTPUT"} \cap DOMAIN outputs}
TotalsReported ==
  {outputs[f].total_size_bytes : f \in {"STATS_OUTPUT"} \cap DOMAIN outputs}

\* C25: for every snapshot, the aggregate reclaimable space, the sum over the
\* exact-duplicate groups of size * (count - 1), that the suggestions and the
\* reorganization plan report never exceeds total_size_bytes as
\* generate_statistics computes it.
C25_ReclaimableWithinTotal ==
  \A saving \in SavingsReported : \A total \in TotalsReported : saving <= total

\* Two groups, a.txt of 100 bytes three times and b.txt of 200 bytes twice:
\* 400 bytes to reclaim in the suggestions and the plan, of 800 in all.
C25_Witness ==
  /\ SavingsReported = {400}
  /\ TotalsReported = {800}
  /\ {"SUGGESTIONS_OUTPUT", "REORG_PLAN_OUTPUT"} \subseteq DOMAIN outputs
  /\ Len(exact_duplicates) = 2

====
